---- MODULE Spec2Model ----
(***************************************************************************)
(* Model of the TaxiHub driver service: the fiber handlers                 *)
(* (internal/handlers/driver_handler.go), the driver service               *)
(* (service package), the request validation (internal/models/dto.go) and  *)
(* the Mongo repository (internal/repository/driver_repository.go).        *)
(*                                                                         *)
(* Conventions                                                             *)
(*  - a Go string whose characters matter (a plate, an identifier in hex)  *)
(*    is a sequence of one-character strings; a string of which only the   *)
(*    length matters (a name, a brand) is a TLA+ string;                   *)
(*  - a float64 coordinate is an integer number of degrees;                *)
(*  - a pointer field of a request is a sequence: <<>> is nil, <<v>> is a  *)
(*    pointer to v;                                                        *)
(*  - a Go error is the sequence of the errors of its chain, outermost     *)
(*    first: fmt.Errorf with %w prepends one element, fmt.Errorf without   *)
(*    %w and errors.New make a chain of one; nil is <<>>;                  *)
(*  - time.Time is a natural number read from the clock `now`.             *)
(***************************************************************************)
EXTENDS Integers, Sequences, FiniteSets, TLC

VARIABLES
    collection,  \* the "drivers" collection: a set of driver documents
    nextID,      \* the next value primitive.NewObjectID() hands out
    now,         \* the wall clock read by time.Now()
    inflight,    \* per client: the call it is in the middle of
    last,        \* the outcome of the step taken last
    deleted,     \* identifiers whose DeleteDriver reported success
    proc         \* the process: its database handle, listener and goroutines

vars == <<collection, nextID, now, inflight, last, deleted, proc>>

\* Bounds of the model.
MaxDrivers == 2
MaxClock == 1

Clients == {"c1", "c2"}

-----------------------------------------------------------------------------
(* Errors: chains and errors.Is                                            *)

Nil == <<>>

\* errors.New(msg) / fmt.Errorf(msg) without %w: a new error with no cause.
ErrorsNew(msg) == <<msg>>

\* fmt.Errorf(msg + ": %w", err)
Wrap(msg, err) == <<msg>> \o err

\* errors.Is(err, target) for a sentinel target: some error of the chain is it.
ErrorsIs(err, target) == \E i \in 1..Len(err) : err[i] = target

\* The sentinels of package service and of package repository: distinct values.
SvcErrDriverNotFound == "service.ErrDriverNotFound"
SvcErrDriverAlreadyExists == "service.ErrDriverAlreadyExists"
SvcErrInvalidID == "service.ErrInvalidID"
SvcErrInvalidLocation == "service.ErrInvalidLocation"
SvcErrInvalidTaxiType == "service.ErrInvalidTaxiType"
SvcErrValidationFailed == "service.ErrValidationFailed"
RepoErrDriverNotFound == "repository.ErrDriverNotFound"
RepoErrDriverAlreadyExists == "repository.ErrDriverAlreadyExists"
RepoErrInvalidID == "repository.ErrInvalidID"

-----------------------------------------------------------------------------
(* Identifiers                                                             *)

HexDigits == <<"0", "1", "2", "3", "4", "5", "6", "7",
               "8", "9", "a", "b", "c", "d", "e", "f">>

\* The value of each hex digit, lower or upper case.
HexTable ==
    [c \in {"0", "1", "2", "3", "4", "5", "6", "7", "8", "9"} |->
        CHOOSE k \in 0..9 : HexDigits[k + 1] = c]
    @@ ("a" :> 10) @@ ("b" :> 11) @@ ("c" :> 12) @@ ("d" :> 13)
    @@ ("e" :> 14) @@ ("f" :> 15)
    @@ ("A" :> 10) @@ ("B" :> 11) @@ ("C" :> 12) @@ ("D" :> 13)
    @@ ("E" :> 14) @@ ("F" :> 15)

HexChars == DOMAIN HexTable

IsHexChar(c) == c \in HexChars

\* ObjectID.Hex(): 24 lower-case hex digits, most significant first.
RECURSIVE HexOf(_, _)
HexOf(n, width) ==
    IF width = 0 THEN <<>>
    ELSE Append(HexOf(n \div 16, width - 1), HexDigits[(n % 16) + 1])

Hex(oid) == HexOf(oid, 24)

\* primitive.ObjectIDFromHex: an error unless 24 hex digits.
ObjectIDFromHexOk(s) == Len(s) = 24 /\ \A i \in 1..Len(s) : IsHexChar(s[i])

RECURSIVE HexDecode(_, _)
HexDecode(s, n) ==
    IF n = 0 THEN 0 ELSE 16 * HexDecode(s, n - 1) + HexTable[s[n]]

ObjectIDFromHex(s) == HexDecode(s, Len(s))

\* DriverHandler.isValidObjectID
isValidObjectID(id) == ObjectIDFromHexOk(id)

-----------------------------------------------------------------------------
(* Validation (go-playground/validator tags of dto.go)                     *)

TaxiTypes == {"sari", "turkuaz", "siyah"}

IsValidTaxiType(t) == t \in TaxiTypes

Digits == {"0", "1", "2", "3", "4", "5", "6", "7", "8", "9"}

Letters ==
    {"A", "B", "C", "D", "E", "F", "G", "H", "I", "J", "K", "L", "M", "N", "O",
     "P", "Q", "R", "S", "T", "U", "V", "W", "X", "Y", "Z",
     "a", "b", "c", "d", "e", "f", "g", "h", "i", "j", "k", "l", "m", "n", "o",
     "p", "q", "r", "s", "t", "u", "v", "w", "x", "y", "z"}

Whitespace == {" ", "\t"}

\* regexp `\s+` replaced by "": the plate without its whitespace.
StripSpace(plate) == SelectSeq(plate, LAMBDA c : c \notin Whitespace)

\* ^[0-9]{2}[A-Za-z]{1,3}[0-9]{1,4}$
MatchesPlatePattern(p) ==
    \E a \in 1..3, b \in 1..4 :
        /\ Len(p) = 2 + a + b
        /\ \A i \in 1..2 : p[i] \in Digits
        /\ \A i \in 3..(2 + a) : p[i] \in Letters
        /\ \A i \in (3 + a)..(2 + a + b) : p[i] \in Digits

TurkishLicensePlateValidator(plate) == MatchesPlatePattern(StripSpace(plate))

\* `required` on a value field: not the zero value of its type.
RequiredString(s) == s # ""
RequiredFloat(x) == x # 0

\* `min=a,max=b` on a string counts its characters, on a number compares it.
LenBetween(s, lo, hi) == Len(s) >= lo /\ Len(s) <= hi
Between(x, lo, hi) == x >= lo /\ x <= hi

\* CreateDriverRequest.Validate: nil error iff every field tag passes.
CreateValid(req) ==
    /\ RequiredString(req.FirstName) /\ LenBetween(req.FirstName, 2, 50)
    /\ RequiredString(req.LastName) /\ LenBetween(req.LastName, 2, 50)
    /\ req.Plate # <<>> /\ TurkishLicensePlateValidator(req.Plate)
    /\ RequiredString(req.TaxiType) /\ req.TaxiType \in TaxiTypes
    /\ RequiredString(req.CarBrand) /\ LenBetween(req.CarBrand, 2, 30)
    /\ RequiredString(req.CarModel) /\ LenBetween(req.CarModel, 1, 30)
    /\ RequiredFloat(req.Lat) /\ Between(req.Lat, -90, 90)
    /\ RequiredFloat(req.Lon) /\ Between(req.Lon, -180, 180)

\* A Validate whose `omitempty` also skips a pointer to the zero value.
UpdateValid_OmitEmptySkipsZero(req) ==
    /\ req.FirstName = <<>> \/ req.FirstName[1] = ""
          \/ LenBetween(req.FirstName[1], 2, 50)
    /\ req.LastName = <<>> \/ req.LastName[1] = ""
          \/ LenBetween(req.LastName[1], 2, 50)
    /\ req.TaxiType = <<>> \/ req.TaxiType[1] = "" \/ req.TaxiType[1] \in TaxiTypes
    /\ req.CarBrand = <<>> \/ req.CarBrand[1] = ""
          \/ LenBetween(req.CarBrand[1], 2, 30)
    /\ req.CarModel = <<>> \/ req.CarModel[1] = ""
          \/ LenBetween(req.CarModel[1], 1, 30)
    /\ req.Lat = <<>> \/ req.Lat[1] = 0 \/ Between(req.Lat[1], -90, 90)
    /\ req.Lon = <<>> \/ req.Lon[1] = 0 \/ Between(req.Lon[1], -180, 180)

\* UpdateDriverRequest.Validate. `omitempty` on a pointer field: the field
\* is skipped when nil and checked when set (a pointer to the zero value is
\* set).
UpdateValid(req) ==
    /\ req.FirstName = <<>> \/ LenBetween(req.FirstName[1], 2, 50)
    /\ req.LastName = <<>> \/ LenBetween(req.LastName[1], 2, 50)
    /\ req.TaxiType = <<>> \/ req.TaxiType[1] \in TaxiTypes
    /\ req.CarBrand = <<>> \/ LenBetween(req.CarBrand[1], 2, 30)
    /\ req.CarModel = <<>> \/ LenBetween(req.CarModel[1], 1, 30)
    /\ req.Lat = <<>> \/ Between(req.Lat[1], -90, 90)
    /\ req.Lon = <<>> \/ Between(req.Lon[1], -180, 180)

\* UpdateLocationRequest.Validate
LocationValid(req) ==
    /\ RequiredFloat(req.Lat) /\ Between(req.Lat, -90, 90)
    /\ RequiredFloat(req.Lon) /\ Between(req.Lon, -180, 180)

-----------------------------------------------------------------------------
(* Go int (64 bits, two's complement), for the page number                 *)
(* A value is four 16-bit limbs, most significant first, so that the       *)
(* product (page - 1) * pageSize wraps as it does in Go.                   *)

\* The int64 of a small integer.
I64(n) == IF n >= 0 THEN <<0, 0, 0, n>> ELSE <<65535, 65535, 65535, 65536 + n>>

I64IsNeg(x) == x[1] >= 32768

\* x < 1
I64LessThan1(x) == I64IsNeg(x) \/ x = I64(0)

\* x - 1, wrapping.
RECURSIVE I64DecFrom(_, _)
I64DecFrom(x, i) ==
    IF i = 0 THEN x
    ELSE IF x[i] > 0 THEN [x EXCEPT ![i] = x[i] - 1]
    ELSE I64DecFrom([x EXCEPT ![i] = 65535], i - 1)

I64Dec(x) == I64DecFrom(x, 4)

\* x * k for 0 <= k <= 100, wrapping: the carry out of the top limb is lost.
RECURSIVE I64MulFrom(_, _, _, _)
I64MulFrom(x, k, i, carry) ==
    IF i = 0 THEN x
    ELSE LET p == x[i] * k + carry IN
         I64MulFrom([x EXCEPT ![i] = p % 65536], k, i - 1, p \div 65536)

I64Mul(x, k) == I64MulFrom(x, k, 4, 0)

\* Whether a value that is not negative is below 2^30, and then its value.
I64IsSmall(x) == x[1] = 0 /\ x[2] = 0 /\ x[3] < 16384
I64Small(x) == x[3] * 65536 + x[4]

\* x > n, for a small integer n >= 0.
I64GreaterThan(x, n) == ~I64IsNeg(x) /\ (~I64IsSmall(x) \/ I64Small(x) > n)

-----------------------------------------------------------------------------
(* The document store (MongoDB collection "drivers")                       *)

IDs(coll) == {d.ID : d \in coll}

\* The uniqueness constraint on plate of the persistence handle the service
\* is given: whether doc has the plate of another document of coll.
UniquePlateIndex(coll, doc) ==
    \E d \in coll : d.ID # doc.ID /\ d.Plate = doc.Plate

\* mongo.IsDuplicateKeyError of an insert: the _id or the plate is taken.
IsDuplicateKey(coll, doc) ==
    (\E d \in coll : d.ID = doc.ID) \/ UniquePlateIndex(coll, doc)

\* collection.FindOne({_id: oid}): the documents with that _id (none or one).
FindOneByID(coll, oid) == {d \in coll : d.ID = oid}

\* An UpdateOne that also sets created_at, to the time of the update.
UpdateOneSet_SetsCreatedAt(coll, oid, src) ==
    {IF d.ID = oid
        THEN [src EXCEPT !.ID = d.ID, !.CreatedAt = src.UpdatedAt]
        ELSE d : d \in coll}

\* collection.UpdateOne({_id: oid}, {$set: fields}): the new collection.
UpdateOneSet(coll, oid, src) ==
    {IF d.ID = oid
        THEN [d EXCEPT !.FirstName = src.FirstName,
                       !.LastName = src.LastName,
                       !.Plate = src.Plate,
                       !.TaxiType = src.TaxiType,
                       !.CarBrand = src.CarBrand,
                       !.CarModel = src.CarModel,
                       !.Location = src.Location,
                       !.UpdatedAt = src.UpdatedAt]
        ELSE d : d \in coll}

\* A delete that takes every document with it when it matches one.
DeleteOneByID_DeleteMany(coll, oid) ==
    IF \E d \in coll : d.ID = oid THEN {} ELSE coll

\* collection.DeleteOne({_id: oid})
DeleteOneByID(coll, oid) == {d \in coll : d.ID # oid}

\* collection.Find({}, sort {created_at: -1}): the orders the cursor may
\* return the documents in. Documents with equal created_at come in any
\* order, and not in the same order from one query to the next.
SortedByCreatedAtDesc(coll) ==
    LET n == Cardinality(coll) IN
    { s \in [1..n -> coll] :
        /\ \A i \in 1..n : \A j \in 1..n : i # j => s[i] # s[j]
        /\ \A i \in 1..n : \A j \in 1..n : i < j => s[i].CreatedAt >= s[j].CreatedAt }

\* The documents left of an ordered result after skip and limit (skip >= 0).
SkipLimit(ordered, skip, limit) ==
    IF ~I64IsSmall(skip) \/ I64Small(skip) >= Len(ordered) THEN <<>>
    ELSE LET from == I64Small(skip) + 1
             to == IF from + limit - 1 < Len(ordered)
                     THEN from + limit - 1 ELSE Len(ordered)
         IN  SubSeq(ordered, from, to)

\* A point on the sphere, in whole degrees.
GeoPoint(lon, lat) == [lon |-> lon, lat |-> lat]

\* The point the geospatial index keeps for a stored location. Location is
\* written as the embedded document {lat, lon}, which the store reads as a
\* legacy coordinate pair: the first field is the longitude and the second
\* the latitude, whatever their names.
GeoKey(loc) == GeoPoint(loc.Lat, loc.Lon)

\* A point the index can hold.
GeoInBounds(p) == p.lon >= -180 /\ p.lon <= 180 /\ p.lat >= -90 /\ p.lat <= 90

Abs(n) == IF n < 0 THEN -n ELSE n

\* The difference of two longitudes, in degrees, the short way round.
LonDelta(a, b) == LET d == Abs(a - b) IN IF d > 180 THEN 360 - d ELSE d

\* A distance beyond every search radius of the model.
Beyond == 100000

\* The great-circle distance of two points, in metres (sphere of radius
\* 6378137 m), for points on whole degrees: 0 for one point (every
\* longitude is one point at a pole), 1943 m per degree of longitude on the
\* parallels 89 and -89, 3885 m for one degree on the parallels 88 and -88,
\* and more than 5 km for every other pair, which is told as Beyond.
Metres(p, q) ==
    IF p.lat # q.lat THEN Beyond
    ELSE LET d == LonDelta(p.lon, q.lon) IN
         IF d = 0 \/ Abs(p.lat) = 90 THEN 0
         ELSE IF Abs(p.lat) = 89 /\ d = 1 THEN 1943
         ELSE IF Abs(p.lat) = 89 /\ d = 2 THEN 3885
         ELSE IF Abs(p.lat) = 88 /\ d = 1 THEN 3885
         ELSE Beyond

\* The geospatial index over the field location: the documents whose point
\* it holds.
GeoIndexed(coll) == { d \in coll : GeoInBounds(GeoKey(d.Location)) }

\* $geoNear with spherical true: the documents whose indexed point is within
\* maxDistance metres of near, each with its distance, nearest first; the
\* order of documents at one distance is the server's choice.
GeoNear(coll, near, maxDistance) ==
    LET hits == { d \in GeoIndexed(coll) :
                     Metres(GeoKey(d.Location), near) <= maxDistance }
        n == Cardinality(hits)
    IN  { s \in [1..n -> [doc : hits, distance : {0, 1943, 3885}]] :
            /\ \A d \in hits : \E i \in 1..n : s[i].doc = d
            /\ \A i \in 1..n : s[i].distance = Metres(GeoKey(s[i].doc.Location), near)
            /\ \A i \in 1..n : \A j \in 1..n : i < j => s[i].distance <= s[j].distance }

\* $match on taxi_type.
MatchTaxiType(results, taxiType) ==
    SelectSeq(results, LAMBDA r : r.doc.TaxiType = taxiType)

\* $limit.
Limit(results, n) == IF Len(results) > n THEN SubSeq(results, 1, n) ELSE results

-----------------------------------------------------------------------------
(* MongoDriverRepository                                                   *)

\* A Create whose collection refuses no duplicate.
RepoCreate_NoDuplicateCheck(coll, driver, t, fault) ==
    LET doc == [driver EXCEPT !.CreatedAt = t, !.UpdatedAt = t] IN
    IF fault
      THEN [coll |-> coll, id |-> <<>>,
            err |-> Wrap("failed to create driver", <<"mongo: server error">>)]
      ELSE [coll |-> coll \cup {doc}, id |-> Hex(doc.ID), err |-> Nil]

\* A Create whose insert is applied by the store although it reports a
\* failure.
RepoCreate_FailsAfterInsert(coll, driver, t, fault) ==
    LET doc == [driver EXCEPT !.CreatedAt = t, !.UpdatedAt = t] IN
    IF IsDuplicateKey(coll, doc)
      THEN [coll |-> coll, id |-> <<>>,
            err |-> ErrorsNew("driver with plate already exists")]
    ELSE IF fault
      THEN [coll |-> coll \cup {doc}, id |-> <<>>,
            err |-> Wrap("failed to create driver", <<"mongo: server error">>)]
    ELSE [coll |-> coll \cup {doc}, id |-> Hex(doc.ID), err |-> Nil]

\* Create: both timestamps are set to one reading of the clock; a duplicate
\* key error becomes a new error without cause, any other error is wrapped.
RepoCreate(coll, driver, t, fault) ==
    LET doc == [driver EXCEPT !.CreatedAt = t, !.UpdatedAt = t] IN
    IF fault
      THEN [coll |-> coll, id |-> <<>>,
            err |-> Wrap("failed to create driver", <<"mongo: server error">>)]
    ELSE IF IsDuplicateKey(coll, doc)
      THEN [coll |-> coll, id |-> <<>>,
            err |-> ErrorsNew("driver with plate already exists")]
    ELSE [coll |-> coll \cup {doc}, id |-> Hex(doc.ID), err |-> Nil]

\* collection.FindOne({plate: plate}): the documents with exactly that plate.
FindOneByPlate(coll, plate) == {d \in coll : d.Plate = plate}

\* FindByPlate (lines 246-261): no document is repository.ErrDriverNotFound.
RepoFindByPlate(coll, plate) ==
    IF plate = <<>>
      THEN [found |-> {}, err |-> ErrorsNew("plate cannot be empty")]
    ELSE
      LET found == FindOneByPlate(coll, plate) IN
      IF found = {}
        THEN [found |-> {}, err |-> <<RepoErrDriverNotFound>>]
        ELSE [found |-> {CHOOSE d \in found : TRUE}, err |-> Nil]

\* FindByID
RepoFindByID(coll, id) ==
    IF id = <<>>
      THEN [found |-> {}, err |-> ErrorsNew("driver ID cannot be empty")]
    ELSE IF ~ObjectIDFromHexOk(id)
      THEN [found |-> {},
            err |-> Wrap("invalid driver ID format", <<"primitive.ErrInvalidHex">>)]
    ELSE
      LET found == FindOneByID(coll, ObjectIDFromHex(id)) IN
      IF found = {}
        THEN [found |-> {}, err |-> ErrorsNew("driver with ID not found")]
        ELSE [found |-> found, err |-> Nil]

\* An Update whose UpdateOne inserts the document when none matches (an
\* upsert).
RepoUpdate_Upserts(coll, id, driver, t) ==
    IF id = <<>>
      THEN [coll |-> coll, err |-> ErrorsNew("driver ID cannot be empty")]
    ELSE IF ~ObjectIDFromHexOk(id)
      THEN [coll |-> coll,
            err |-> Wrap("invalid driver ID format", <<"primitive.ErrInvalidHex">>)]
    ELSE
      LET oid == ObjectIDFromHex(id)
          src == [driver EXCEPT !.UpdatedAt = t]
          new == IF FindOneByID(coll, oid) = {}
                   THEN coll \cup {[src EXCEPT !.ID = oid]}
                   ELSE UpdateOneSet(coll, oid, src)
      IN  IF \E d \in new : d.ID = oid /\ UniquePlateIndex(new, d)
            THEN [coll |-> coll,
                  err |-> ErrorsNew("driver with plate already exists")]
          ELSE IF FindOneByID(coll, oid) = {}
            THEN [coll |-> new, err |-> ErrorsNew("driver with ID not found")]
          ELSE [coll |-> new, err |-> Nil]

\* Update: stamps UpdatedAt, $sets every field but _id and created_at; no
\* document matched is an error.
RepoUpdate(coll, id, driver, t) ==
    IF id = <<>>
      THEN [coll |-> coll, err |-> ErrorsNew("driver ID cannot be empty")]
    ELSE IF ~ObjectIDFromHexOk(id)
      THEN [coll |-> coll,
            err |-> Wrap("invalid driver ID format", <<"primitive.ErrInvalidHex">>)]
    ELSE
      LET oid == ObjectIDFromHex(id)
          src == [driver EXCEPT !.UpdatedAt = t]
          new == UpdateOneSet(coll, oid, src)
      IN  IF FindOneByID(coll, oid) = {}
            THEN [coll |-> coll, err |-> ErrorsNew("driver with ID not found")]
          ELSE IF \E d \in new : d.ID = oid /\ UniquePlateIndex(new, d)
            THEN [coll |-> coll,
                  err |-> ErrorsNew("driver with plate already exists")]
          ELSE [coll |-> new, err |-> Nil]

\* Delete: nothing deleted is an error.
RepoDelete(coll, id) ==
    IF id = <<>>
      THEN [coll |-> coll, err |-> ErrorsNew("driver ID cannot be empty")]
    ELSE IF ~ObjectIDFromHexOk(id)
      THEN [coll |-> coll,
            err |-> Wrap("invalid driver ID format", <<"primitive.ErrInvalidHex">>)]
    ELSE
      LET new == DeleteOneByID(coll, ObjectIDFromHex(id)) IN
      IF new = coll
        THEN [coll |-> coll, err |-> ErrorsNew("driver with ID not found")]
        ELSE [coll |-> new, err |-> Nil]

\* FindAll lines 135-145: the parameters it works with, and the skip.
FindAllPage(page) == IF I64LessThan1(page) THEN I64(1) ELSE page
FindAllPageSize(pageSize) ==
    IF pageSize < 1 THEN 10 ELSE IF pageSize > 100 THEN 100 ELSE pageSize
FindAllSkip(page, pageSize) ==
    I64Mul(I64Dec(FindAllPage(page)), FindAllPageSize(pageSize))

\* FindAll lines 147-169 once CountDocuments returned totalCount: the find
\* with skip, limit and sort; ordered is the order the cursor returns. The
\* server refuses a negative skip.
RepoFindAll(page, pageSize, totalCount, ordered) ==
    LET skip == FindAllSkip(page, pageSize) IN
    IF I64IsNeg(skip)
      THEN [drivers |-> <<>>, total |-> 0,
            err |-> Wrap("failed to find drivers", <<"mongo: negative skip">>)]
      ELSE [drivers |-> SkipLimit(ordered, skip, FindAllPageSize(pageSize)),
            total |-> totalCount, err |-> Nil]

\* FindNearby (lines 172-244): the checks of the arguments, then the
\* pipeline $geoNear, $match on a valid taxi type, $limit 50; ordered is
\* what $geoNear yields for the centre [lon, lat] and radiusKm * 1000
\* metres. DistanceKm is the distance over 1000, held as a fraction.
RepoFindNearby(lat, lon, radiusKm, taxiType, ordered) ==
    IF lat < -90 \/ lat > 90
      THEN [drivers |-> <<>>, err |-> ErrorsNew("invalid latitude value")]
    ELSE IF lon < -180 \/ lon > 180
      THEN [drivers |-> <<>>, err |-> ErrorsNew("invalid longitude value")]
    ELSE IF radiusKm <= 0
      THEN [drivers |-> <<>>, err |-> ErrorsNew("radius must be positive")]
    ELSE LET matched == IF taxiType # "" /\ IsValidTaxiType(taxiType)
                          THEN MatchTaxiType(ordered, taxiType) ELSE ordered
             results == Limit(matched, 50)
         IN  [drivers |-> [i \in 1..Len(results) |->
                              [Driver |-> results[i].doc,
                               DistanceKm |-> [num |-> results[i].distance,
                                               den |-> 1000]]],
              err |-> Nil]

\* The centre and the radius in metres FindNearby hands to $geoNear.
NearbyCenter(lat, lon) == GeoPoint(lon, lat)
NearbyMaxDistance(radiusKm) == radiusKm * 1000

-----------------------------------------------------------------------------
(* driverService                                                           *)

\* The driver CreateDriver builds from the request.
NewDriver(req, oid, t) ==
    [ID |-> oid,
     FirstName |-> req.FirstName,
     LastName |-> req.LastName,
     Plate |-> req.Plate,
     TaxiType |-> req.TaxiType,
     CarBrand |-> req.CarBrand,
     CarModel |-> req.CarModel,
     Location |-> [Lat |-> req.Lat, Lon |-> req.Lon],
     CreatedAt |-> t,
     UpdatedAt |-> t]

\* The sentinel-to-message translation every service method repeats after
\* FindByID: a repository.ErrDriverNotFound becomes a new error.
SvcFindError(msg, err) ==
    IF ErrorsIs(err, RepoErrDriverNotFound)
      THEN ErrorsNew("driver with ID not found")
      ELSE Wrap(msg, err)

\* CreateDriver: [coll, id, err, repoErr, alloc]; alloc says NewObjectID ran.
SvcCreateDriver(coll, req, oid, t, fault) ==
    IF ~CreateValid(req)
      THEN [coll |-> coll, id |-> <<>>, repoErr |-> Nil, alloc |-> FALSE,
            err |-> Wrap("validation failed", <<"validator.ValidationErrors">>)]
    ELSE
      LET r == RepoCreate(coll, NewDriver(req, oid, t), t, fault) IN
      IF r.err # Nil
        THEN [coll |-> r.coll, id |-> <<>>, repoErr |-> r.err, alloc |-> TRUE,
              err |-> Wrap("failed to create driver", r.err)]
        ELSE [coll |-> r.coll, id |-> r.id, repoErr |-> Nil, alloc |-> TRUE,
              err |-> Nil]

\* GetDriverByID: [found, err, repoErr]
SvcGetDriverByID(coll, id) ==
    IF id = <<>>
      THEN [found |-> {}, repoErr |-> Nil,
            err |-> ErrorsNew("driver ID cannot be empty")]
    ELSE
      LET r == RepoFindByID(coll, id) IN
      IF r.err # Nil
        THEN [found |-> {}, repoErr |-> r.err,
              err |-> SvcFindError("failed to get driver", r.err)]
        ELSE [found |-> r.found, repoErr |-> Nil, err |-> Nil]

\* GetDriverByPlate (lines 248-262): [found, err, repoErr]
SvcGetDriverByPlate(coll, plate) ==
    IF plate = <<>>
      THEN [found |-> {}, repoErr |-> Nil,
            err |-> ErrorsNew("plate cannot be empty")]
    ELSE
      LET r == RepoFindByPlate(coll, plate) IN
      IF r.err # Nil
        THEN [found |-> {}, repoErr |-> r.err,
              err |-> IF ErrorsIs(r.err, RepoErrDriverNotFound)
                        THEN ErrorsNew("driver with plate not found")
                        ELSE Wrap("failed to get driver by plate", r.err)]
        ELSE [found |-> r.found, repoErr |-> Nil, err |-> Nil]

\* A merge that takes over a coordinate given without the other.
Merge_EitherCoordinate(existing, req) ==
    LET a == IF req.FirstName # <<>>
                THEN [existing EXCEPT !.FirstName = req.FirstName[1]] ELSE existing
        b == IF req.LastName # <<>>
                THEN [a EXCEPT !.LastName = req.LastName[1]] ELSE a
        c == IF req.TaxiType # <<>>
                THEN [b EXCEPT !.TaxiType = req.TaxiType[1]] ELSE b
        d == IF req.CarBrand # <<>>
                THEN [c EXCEPT !.CarBrand = req.CarBrand[1]] ELSE c
        e == IF req.CarModel # <<>>
                THEN [d EXCEPT !.CarModel = req.CarModel[1]] ELSE d
        f == IF req.Lat # <<>>
                THEN [e EXCEPT !.Location.Lat = req.Lat[1]] ELSE e
    IN  IF req.Lon # <<>>
          THEN [f EXCEPT !.Location.Lon = req.Lon[1]]
          ELSE f

\* UpdateDriver, lines 97-117: the merge of the request into the driver read.
Merge(existing, req) ==
    LET a == IF req.FirstName # <<>>
                THEN [existing EXCEPT !.FirstName = req.FirstName[1]] ELSE existing
        b == IF req.LastName # <<>>
                THEN [a EXCEPT !.LastName = req.LastName[1]] ELSE a
        c == IF req.TaxiType # <<>>
                THEN [b EXCEPT !.TaxiType = req.TaxiType[1]] ELSE b
        d == IF req.CarBrand # <<>>
                THEN [c EXCEPT !.CarBrand = req.CarBrand[1]] ELSE c
        e == IF req.CarModel # <<>>
                THEN [d EXCEPT !.CarModel = req.CarModel[1]] ELSE d
    IN  IF req.Lat # <<>> /\ req.Lon # <<>>
          THEN [e EXCEPT !.Location = [Lat |-> req.Lat[1], Lon |-> req.Lon[1]]]
          ELSE e

\* UpdateDriverLocation, lines 215-218.
SetLocation(existing, req) ==
    [existing EXCEPT !.Location = [Lat |-> req.Lat, Lon |-> req.Lon]]

\* UpdateDriver lines 78-95, UpdateDriverLocation lines 196-213 and
\* DeleteDriver lines 229-239: the checks and the FindByID that come before
\* the write; valid is the outcome of req.Validate() (TRUE for DeleteDriver).
SvcReadByID(coll, id, valid) ==
    IF id = <<>>
      THEN [found |-> {}, repoErr |-> Nil,
            err |-> ErrorsNew("driver ID cannot be empty")]
    ELSE IF ~valid
      THEN [found |-> {}, repoErr |-> Nil,
            err |-> Wrap("validation failed", <<"validator.ValidationErrors">>)]
    ELSE
      LET r == RepoFindByID(coll, id) IN
      IF r.err # Nil
        THEN [found |-> {}, repoErr |-> r.err,
              err |-> SvcFindError("failed to find driver", r.err)]
        ELSE [found |-> r.found, repoErr |-> Nil, err |-> Nil]

\* UpdateDriver lines 119-125 and UpdateDriverLocation lines 219-225: the
\* write of the changed driver; msg is the message the error is wrapped in.
SvcWrite(coll, id, driver, t, msg) ==
    LET r == RepoUpdate(coll, id, [driver EXCEPT !.UpdatedAt = t], t) IN
    [coll |-> r.coll, repoErr |-> r.err,
     err |-> IF r.err # Nil THEN Wrap(msg, r.err) ELSE Nil]

\* DeleteDriver lines 241-245.
SvcDelete(coll, id) ==
    LET r == RepoDelete(coll, id) IN
    [coll |-> r.coll, repoErr |-> r.err,
     err |-> IF r.err # Nil THEN Wrap("failed to delete driver", r.err) ELSE Nil]

\* A page size normalisation that clamps into [1, 100].
ListPageSize_ClampsToOne(pageSize) ==
    IF pageSize < 1 THEN 1 ELSE IF pageSize > 100 THEN 100 ELSE pageSize

\* ListDrivers lines 145-153: the normalised parameters.
ListPage(page) == IF I64LessThan1(page) THEN I64(1) ELSE page
ListPageSize(pageSize) ==
    IF pageSize < 1 THEN 10 ELSE IF pageSize > 100 THEN 100 ELSE pageSize

\* math.Ceil(float64(a) / float64(b)) for a >= 0, b > 0.
CeilDiv(a, b) == (a + b - 1) \div b

\* ListDrivers lines 155-170, from the result of FindAll.
SvcListDrivers(page, pageSize, totalCount, ordered) ==
    LET p == ListPage(page)
        ps == ListPageSize(pageSize)
        r == RepoFindAll(p, ps, totalCount, ordered)
    IN  IF r.err # Nil
          THEN [resp |-> <<>>, repoErr |-> r.err,
                err |-> Wrap("failed to list drivers", r.err)]
          ELSE [resp |-> <<[Data |-> r.drivers, Page |-> p, PageSize |-> ps,
                            TotalCount |-> r.total,
                            TotalPages |-> CeilDiv(r.total, ps)]>>,
                repoErr |-> Nil, err |-> Nil]

\* Handler ListDrivers lines 134-151: a query parameter is absent (the
\* empty string), text strconv.Atoi refuses, or a number. The page and the
\* page size the handler calls the service with.
QueryAbsent == [given |-> FALSE, num |-> FALSE]
QueryText == [given |-> TRUE, num |-> FALSE]
QueryPage(q) ==
    IF q.given /\ q.num /\ ~I64LessThan1(q.n) THEN q.n ELSE I64(1)
QueryPageSize(q) ==
    IF q.given /\ q.num /\ q.n > 0
      THEN (IF q.n > 100 THEN 100 ELSE q.n)
      ELSE 20

\* FindNearbyDrivers line 185: the fixed radius, in kilometres.
SvcRadiusKm == 5

\* FindNearbyDrivers (lines 173-193): the checks of the arguments, then
\* FindNearby with the fixed radius; ordered is what $geoNear yields.
SvcFindNearbyDrivers(lat, lon, taxiType, ordered) ==
    IF lat < -90 \/ lat > 90
      THEN [drivers |-> <<>>, repoErr |-> Nil,
            err |-> ErrorsNew("invalid latitude: must be between -90 and 90")]
    ELSE IF lon < -180 \/ lon > 180
      THEN [drivers |-> <<>>, repoErr |-> Nil,
            err |-> ErrorsNew("invalid longitude: must be between -180 and 180")]
    ELSE IF taxiType # "" /\ ~IsValidTaxiType(taxiType)
      THEN [drivers |-> <<>>, repoErr |-> Nil,
            err |-> ErrorsNew("invalid taxi type")]
    ELSE LET r == RepoFindNearby(lat, lon, SvcRadiusKm, taxiType, ordered) IN
         IF r.err # Nil
           THEN [drivers |-> <<>>, repoErr |-> r.err,
                 err |-> Wrap("failed to find nearby drivers", r.err)]
           ELSE [drivers |-> r.drivers, repoErr |-> Nil, err |-> Nil]

-----------------------------------------------------------------------------
(* DriverHandler: the status each handler answers with                     *)

\* CreateDriver, lines 64-74.
CreateStatus(err) ==
    IF err = Nil THEN 201
    ELSE IF ErrorsIs(err, SvcErrDriverAlreadyExists) THEN 409
    ELSE 500

\* GetDriver, UpdateDriver, UpdateDriverLocation, DeleteDriver: the branch
\* taken on the error of the service call; ok is the status of success.
ByIDStatus(err, ok) ==
    IF err = Nil THEN ok
    ELSE IF ErrorsIs(err, SvcErrDriverNotFound) THEN 404
    ELSE 500

\* HandleServiceErrors (called by no handler).
HandleServiceErrors(err) ==
    IF ErrorsIs(err, SvcErrDriverNotFound) THEN 404
    ELSE IF ErrorsIs(err, SvcErrDriverAlreadyExists) THEN 409
    ELSE IF ErrorsIs(err, SvcErrInvalidID) THEN 400
    ELSE IF ErrorsIs(err, SvcErrValidationFailed) THEN 400
    ELSE IF ErrorsIs(err, RepoErrDriverNotFound) THEN 404
    ELSE IF ErrorsIs(err, RepoErrInvalidID) THEN 400
    ELSE 500

\* FindNearbyDrivers (handler lines 204-210): the answer to a service error.
NearbyStatus(err) ==
    IF err = Nil THEN 200
    ELSE IF ErrorsIs(err, SvcErrInvalidLocation) THEN 400
    ELSE 500

\* NewDriverWithDistanceResponse: the distance printed with one decimal
\* ("%.1f") and read back, so a fraction over 10.
RoundedKm(km) == [num |-> (km.num * 10 + km.den \div 2) \div km.den, den |-> 10]

NewDriverWithDistanceResponse(dwd) ==
    [ID |-> Hex(dwd.Driver.ID), FirstName |-> dwd.Driver.FirstName,
     LastName |-> dwd.Driver.LastName, Plate |-> dwd.Driver.Plate,
     TaxiType |-> dwd.Driver.TaxiType, CarBrand |-> dwd.Driver.CarBrand,
     CarModel |-> dwd.Driver.CarModel, Location |-> dwd.Driver.Location,
     DistanceKm |-> RoundedKm(dwd.DistanceKm)]

\* RegisterRoutes (lines 30-43): the routes of the group /api/v1/drivers in
\* the order they are registered. A path is the sequence of its segments
\* after the group's prefix, a segment a sequence of characters; the
\* segment ":id" of a pattern is a parameter.
ParamID == <<":", "i", "d">>
SegNearby == <<"n", "e", "a", "r", "b", "y">>
SegLocation == <<"l", "o", "c", "a", "t", "i", "o", "n">>

Routes ==
    << [method |-> "POST", pattern |-> <<>>, handler |-> "CreateDriver"],
       [method |-> "GET", pattern |-> <<>>, handler |-> "ListDrivers"],
       [method |-> "GET", pattern |-> <<ParamID>>, handler |-> "GetDriver"],
       [method |-> "PUT", pattern |-> <<ParamID>>, handler |-> "UpdateDriver"],
       [method |-> "DELETE", pattern |-> <<ParamID>>, handler |-> "DeleteDriver"],
       [method |-> "GET", pattern |-> <<SegNearby>>, handler |-> "FindNearbyDrivers"],
       [method |-> "PUT", pattern |-> <<ParamID, SegLocation>>,
        handler |-> "UpdateDriverLocation"] >>

\* A route matches a request of its method whose path has the pattern's
\* segments, a parameter taking any one segment.
RouteMatches(route, method, path) ==
    /\ route.method = method
    /\ Len(route.pattern) = Len(path)
    /\ \A i \in 1..Len(path) : route.pattern[i] = ParamID \/ route.pattern[i] = path[i]

\* The router hands a request to the first registered route that matches;
\* with none it answers 404.
Dispatch(method, path) ==
    IF \E i \in 1..Len(Routes) : RouteMatches(Routes[i], method, path)
      THEN LET first == CHOOSE i \in 1..Len(Routes) :
                    /\ RouteMatches(Routes[i], method, path)
                    /\ \A j \in 1..(i - 1) : ~RouteMatches(Routes[j], method, path)
           IN  Routes[first].handler
      ELSE "NotFound"

-----------------------------------------------------------------------------
(* Inputs                                                                  *)

Plate34 == <<"3", "4", "A", "B", "C", "1", "2", "3">>
Plate06 == <<"0", "6", "X", "Y", "Z", "4", "5", "6">>
PlateSpaced == <<"3", "4", " ", "A", "B", "C", " ", "1", "2", "3">>
PlateBad == <<"A", "B", "C">>

Name51 == "aaaaaaaaaaaaaaaaaaaaaaaaaaaaaaaaaaaaaaaaaaaaaaaaaaa"

BaseCreate ==
    [FirstName |-> "Ali", LastName |-> "Kaya", Plate |-> Plate34,
     TaxiType |-> "sari", CarBrand |-> "Fiat", CarModel |-> "Egea",
     Lat |-> 41, Lon |-> 29]

CreateRequests ==
    { BaseCreate,
      [BaseCreate EXCEPT !.Plate = Plate06, !.Lat = -90, !.Lon = 180],
      [BaseCreate EXCEPT !.Plate = Plate06, !.Lat = 90, !.Lon = -180],
      [BaseCreate EXCEPT !.Lat = 0],
      [BaseCreate EXCEPT !.Plate = Plate06, !.Lon = 0],
      [BaseCreate EXCEPT !.Lat = 91],
      [BaseCreate EXCEPT !.Lon = -181],
      [BaseCreate EXCEPT !.FirstName = "A"],
      [BaseCreate EXCEPT !.LastName = Name51],
      [BaseCreate EXCEPT !.Plate = PlateBad],
      [BaseCreate EXCEPT !.TaxiType = "gold"],
      [BaseCreate EXCEPT !.CarBrand = "F"],
      [BaseCreate EXCEPT !.CarModel = ""] }

NoUpdate ==
    [FirstName |-> <<>>, LastName |-> <<>>, TaxiType |-> <<>>,
     CarBrand |-> <<>>, CarModel |-> <<>>, Lat |-> <<>>, Lon |-> <<>>]

UpdateRequests ==
    { NoUpdate,
      [NoUpdate EXCEPT !.FirstName = <<"Veli">>, !.CarBrand = <<"Ford">>],
      [NoUpdate EXCEPT !.LastName = <<"Can">>, !.TaxiType = <<"turkuaz">>,
                       !.CarModel = <<"K">>],
      [NoUpdate EXCEPT !.Lat = <<10>>],
      [NoUpdate EXCEPT !.Lon = <<10>>],
      [NoUpdate EXCEPT !.Lat = <<0>>, !.Lon = <<0>>],
      [NoUpdate EXCEPT !.TaxiType = <<"">>],
      [NoUpdate EXCEPT !.Lat = <<91>>, !.Lon = <<0>>] }

LocationRequests ==
    { [Lat |-> -90, Lon |-> 180],
      [Lat |-> 0, Lon |-> 29],
      [Lat |-> 41, Lon |-> 181] }

\* Identifier strings: the identifiers NewObjectID can hand out, the empty
\* string, a string too short and one of 24 characters that are not hex.
ShortID == <<"1", "2", "3">>
NonHexID == [i \in 1..24 |-> "g"]
DriverIDs == {Hex(n) : n \in 1..MaxDrivers}
FirstID == Hex(1)
IDInputs == DriverIDs \cup {<<>>, ShortID, NonHexID}

\* Page numbers: below 1, the first pages, and 2^62 + 1, whose skip wraps.
HugePage == <<16384, 0, 0, 1>>
ListPages == {I64(-1), I64(0), I64(1), I64(2), I64(3), HugePage}
ListPageSizes == {-1, 0, 1, 2, 100, 101, 100000}

QueryNum(n) == [given |-> TRUE, num |-> TRUE, n |-> n]
PageQueries == {QueryAbsent, QueryText, QueryNum(I64(0)), QueryNum(I64(2)),
                QueryNum(HugePage)}
PageSizeQueries == {QueryAbsent, QueryText, QueryNum(0), QueryNum(2),
                    QueryNum(100000)}

\* A call enters through its handler ("http") or at the service ("svc").
\* The router matches /:id only with a non-empty segment; the handler hands
\* a well-formed identifier on to the service, so that only the other
\* identifiers are given to the service directly as well.
Entries(id) ==
    IF id = <<>> THEN {"svc"}
    ELSE IF isValidObjectID(id) THEN {"http"}
    ELSE {"http", "svc"}

\* The calls on one identifier: <<identifier, entry>>.
Calls == {call \in IDInputs \X {"http", "svc"} : call[2] \in Entries(call[1])}

-----------------------------------------------------------------------------
(* State                                                                   *)

Idle == [op |-> "idle"]

\* The outcome of a call: repoErr and err are the errors the repository and
\* the service returned (Nil also when not called), status the handler's
\* answer (0 when the call entered at the service, or is not answered yet),
\* ret what was returned, clean whether the document the call read was
\* still the stored one when it wrote.
Outcome(op, via, id, req, repoErr, err, status, ret, clean) ==
    [op |-> op, via |-> via, id |-> id, req |-> req, repoErr |-> repoErr,
     err |-> err, status |-> status, ret |-> ret, clean |-> clean]

\* The process once main has reached app.Listen (main line 180): the mongo
\* client is connected (line 37), the goroutine of SetupGracefulShutdown
\* (line 48) and the one of setupGracefulShutdown (line 169) each wait on
\* their own signal channel, and the listener is open.
Started ==
    [db |-> "connected",    \* the mongo client: connected, disconnected
     listening |-> TRUE,    \* the server accepts connections
     dbSig |-> FALSE,       \* a signal waits in the database manager's channel
     srvSig |-> FALSE,      \* a signal waits in the server's channel
     dbPc |-> "wait",       \* database manager's goroutine: wait, close, exit
     srvPc |-> "wait",      \* server's goroutine: wait, shutdown, drain, complete
     mainPc |-> "listen",   \* main: listen, close, return
     exited |-> FALSE]      \* the process has exited

Init ==
    /\ collection = {}
    /\ nextID = 1
    /\ now = 0
    /\ inflight = [c \in Clients |-> Idle]
    /\ last = Outcome("init", "svc", <<>>, <<>>, Nil, Nil, 0, <<>>, TRUE)
    /\ deleted = {}
    /\ proc = Started

\* A step of a call that uses the database: the process runs, the handle is
\* connected, and the step leaves the process as it is.
Serving ==
    /\ ~proc.exited
    /\ proc.db = "connected"
    /\ UNCHANGED proc

\* The clock advances.
Tick ==
    /\ now < MaxClock
    /\ now' = now + 1
    /\ UNCHANGED <<collection, nextID, inflight, last, deleted, proc>>

\* POST /drivers (handler lines 45-75) or service.CreateDriver.
CreateDriver(via, req, fault) ==
    /\ Serving
    /\ CreateValid(req) => nextID <= MaxDrivers
    /\ IF via = "http" /\ ~CreateValid(req)
         THEN /\ last' = Outcome("create", via, <<>>, req, Nil, Nil, 400, <<>>, TRUE)
              /\ UNCHANGED <<collection, nextID>>
         ELSE LET r == SvcCreateDriver(collection, req, nextID, now, fault) IN
              /\ collection' = r.coll
              /\ nextID' = IF r.alloc THEN nextID + 1 ELSE nextID
              /\ last' = Outcome("create", via, <<>>, req, r.repoErr, r.err,
                                 IF via = "http" THEN CreateStatus(r.err) ELSE 0,
                                 r.id, TRUE)
    /\ UNCHANGED <<now, inflight, deleted>>

\* GET /drivers/:id (handler lines 116-131) or service.GetDriverByID.
GetDriver(via, id) ==
    /\ Serving
    /\ IF via = "http" /\ ~isValidObjectID(id)
         THEN last' = Outcome("get", via, id, <<>>, Nil, Nil, 400, {}, TRUE)
         ELSE LET r == SvcGetDriverByID(collection, id) IN
              last' = Outcome("get", via, id, <<>>, r.repoErr, r.err,
                              IF via = "http" THEN ByIDStatus(r.err, 200) ELSE 0,
                              r.found, TRUE)
    /\ UNCHANGED <<collection, nextID, now, inflight, deleted>>

\* The first half of a call on one driver: the handler's checks, the
\* service's checks and FindByID. A call that fails ends here; one that
\* finds the driver goes on, holding the document it read when keep (a
\* delete drops it) and the reading of the clock when FindByID returned.
BeginByID(c, op, via, id, req, valid, keep) ==
    /\ Serving
    /\ inflight[c] = Idle
    /\ IF via = "http" /\ (~isValidObjectID(id) \/ ~valid)
         THEN /\ last' = Outcome(op, via, id, req, Nil, Nil, 400, {}, TRUE)
              /\ UNCHANGED inflight
         ELSE LET r == SvcReadByID(collection, id, valid) IN
              IF r.err # Nil
                THEN /\ last' = Outcome(op, via, id, req, r.repoErr, r.err,
                                        IF via = "http" THEN ByIDStatus(r.err, 200) ELSE 0,
                                        {}, TRUE)
                     /\ UNCHANGED inflight
                ELSE /\ inflight' = [inflight EXCEPT ![c] =
                            [op |-> op, via |-> via, id |-> id, req |-> req,
                             existing |-> IF keep THEN CHOOSE d \in r.found : TRUE
                                          ELSE <<>>,
                             began |-> now]]
                     /\ UNCHANGED last
    /\ UNCHANGED <<collection, nextID, now, deleted>>

\* PUT /drivers/:id (handler lines 77-106) or service.UpdateDriver, up to
\* the return of FindByID.
UpdateDriverBegin(c, via, id, req) ==
    BeginByID(c, "update", via, id, req, UpdateValid(req), TRUE)

\* UpdateDriver: the merge and repository.Update. Update reads the clock
\* for UpdatedAt (line 78) before it sends the write, so the store applies
\* the write with a reading t taken since FindByID returned. Through the
\* handler the call goes on to read the driver back.
UpdateDriverWrite(c) ==
    /\ Serving
    /\ inflight[c].op = "update"
    /\ \E t \in inflight[c].began..now :
       LET call == inflight[c]
           r == SvcWrite(collection, call.id, Merge(call.existing, call.req), t,
                         "failed to update driver")
           answered == call.via = "svc" \/ r.err # Nil
       IN  /\ collection' = r.coll
           /\ last' = Outcome("update", call.via, call.id, call.req, r.repoErr, r.err,
                              IF call.via = "http" /\ r.err # Nil
                                THEN ByIDStatus(r.err, 200) ELSE 0,
                              {}, call.existing \in collection)
           /\ inflight' = [inflight EXCEPT ![c] =
                  IF answered THEN Idle
                  ELSE [op |-> "fetch", via |-> call.via, id |-> call.id,
                        req |-> call.req]]
    /\ UNCHANGED <<nextID, now, deleted>>

\* Handler UpdateDriver lines 108-113: GetDriverByID and the response.
UpdateDriverFetch(c) ==
    /\ Serving
    /\ inflight[c].op = "fetch"
    /\ LET call == inflight[c]
           r == SvcGetDriverByID(collection, call.id)
       IN  last' = Outcome("update.response", call.via, call.id, call.req,
                           r.repoErr, r.err,
                           IF r.err # Nil THEN 500 ELSE 200, r.found, TRUE)
    /\ inflight' = [inflight EXCEPT ![c] = Idle]
    /\ UNCHANGED <<collection, nextID, now, deleted>>

\* PUT /drivers/:id/location (handler lines 226-259) or
\* service.UpdateDriverLocation, up to the return of FindByID.
UpdateLocationBegin(c, via, id, req) ==
    BeginByID(c, "location", via, id, req, LocationValid(req), TRUE)

\* UpdateDriverLocation: the new location and repository.Update, with the
\* reading t of the clock Update took before it sent the write.
UpdateLocationWrite(c) ==
    /\ Serving
    /\ inflight[c].op = "location"
    /\ \E t \in inflight[c].began..now :
       LET call == inflight[c]
           r == SvcWrite(collection, call.id, SetLocation(call.existing, call.req),
                         t, "failed to update driver location")
       IN  /\ collection' = r.coll
           /\ last' = Outcome("location", call.via, call.id, call.req, r.repoErr, r.err,
                              IF call.via = "http" THEN ByIDStatus(r.err, 200) ELSE 0,
                              {}, call.existing \in collection)
    /\ inflight' = [inflight EXCEPT ![c] = Idle]
    /\ UNCHANGED <<nextID, now, deleted>>

\* DELETE /drivers/:id (handler lines 169-183) or service.DeleteDriver, up
\* to the return of FindByID.
DeleteDriverBegin(c, via, id) ==
    BeginByID(c, "delete", via, id, <<>>, TRUE, FALSE)

\* DeleteDriver: repository.Delete.
DeleteDriverWrite(c) ==
    /\ Serving
    /\ inflight[c].op = "delete"
    /\ LET call == inflight[c]
           r == SvcDelete(collection, call.id)
       IN  /\ collection' = r.coll
           /\ last' = Outcome("delete", call.via, call.id, <<>>, r.repoErr, r.err,
                              IF call.via = "http" THEN ByIDStatus(r.err, 204) ELSE 0,
                              {}, TRUE)
           /\ deleted' = IF r.err = Nil
                           THEN deleted \cup {ObjectIDFromHex(call.id)}
                           ELSE deleted
    /\ inflight' = [inflight EXCEPT ![c] = Idle]
    /\ UNCHANGED <<nextID, now>>

\* ListDrivers up to the return of CountDocuments: the service is called
\* with page and pageSize, by the handler from the query (qp, qs) or
\* directly (query <<>>).
ListDriversCount(c, via, page, pageSize, query) ==
    /\ Serving
    /\ inflight[c] = Idle
    /\ inflight' = [inflight EXCEPT ![c] =
           [op |-> "list", via |-> via, page |-> page, pageSize |-> pageSize,
            query |-> query, total |-> Cardinality(collection),
            seen |-> collection]]
    /\ last' = Outcome("list.count", via, <<>>,
                       [page |-> page, pageSize |-> pageSize, query |-> query],
                       Nil, Nil, 0, <<>>, TRUE)
    /\ UNCHANGED <<collection, nextID, now, deleted>>

\* service.ListDrivers(page, pageSize)
ListDriversCall(c, page, pageSize) ==
    ListDriversCount(c, "svc", page, pageSize, <<>>)

\* GET /drivers?page=qp&pageSize=qs (handler lines 133-154)
ListDriversQuery(c, qp, qs) ==
    ListDriversCount(c, "http", QueryPage(qp), QueryPageSize(qs), <<qp, qs>>)

\* ListDrivers from the find on: clean says no write came between the count
\* and the find.
ListDriversFind(c) ==
    /\ Serving
    /\ inflight[c].op = "list"
    /\ \E ordered \in SortedByCreatedAtDesc(collection) :
          LET call == inflight[c]
              r == SvcListDrivers(call.page, call.pageSize, call.total, ordered)
          IN  last' = Outcome("list", call.via, <<>>,
                              [page |-> call.page, pageSize |-> call.pageSize,
                               query |-> call.query],
                              r.repoErr, r.err,
                              IF call.via = "svc" THEN 0
                              ELSE IF r.err # Nil THEN 500 ELSE 200,
                              r.resp, collection = call.seen)
    /\ inflight' = [inflight EXCEPT ![c] = Idle]
    /\ UNCHANGED <<collection, nextID, now, deleted>>

\* A client starts reading the whole list, page by page, pageSize a page.
ScanBegin(c, pageSize) ==
    /\ Serving
    /\ inflight[c] = Idle
    /\ inflight' = [inflight EXCEPT ![c] =
           [op |-> "scan", pageSize |-> pageSize, page |-> 1, acc |-> <<>>,
            seen |-> collection, clean |-> TRUE]]
    /\ UNCHANGED <<collection, nextID, now, last, deleted>>

\* The client's next call of ListDrivers; it stops at the last page the
\* response tells it of. ret is the identifiers it was given, in order.
ScanPage(c) ==
    /\ Serving
    /\ inflight[c].op = "scan"
    /\ \E ordered \in SortedByCreatedAtDesc(collection) :
          LET call == inflight[c]
              r == SvcListDrivers(I64(call.page), call.pageSize,
                                  Cardinality(collection), ordered)
              resp == r.resp[1]
              acc == call.acc \o [i \in 1..Len(resp.Data) |-> resp.Data[i].ID]
              clean == call.clean /\ collection = call.seen
          IN  IF call.page >= resp.TotalPages
                THEN /\ last' = Outcome("scan", "svc", <<>>,
                                        [pageSize |-> call.pageSize,
                                         pages |-> resp.TotalPages],
                                        Nil, Nil, 0, acc, clean)
                     /\ inflight' = [inflight EXCEPT ![c] = Idle]
                ELSE /\ inflight' = [inflight EXCEPT ![c] =
                            [call EXCEPT !.page = call.page + 1, !.acc = acc,
                                         !.clean = clean]]
                     /\ UNCHANGED last
    /\ UNCHANGED <<collection, nextID, now, deleted>>

\* service.GetDriverByPlate (no route leads to it).
GetDriverByPlate(plate) ==
    /\ Serving
    /\ LET r == SvcGetDriverByPlate(collection, plate) IN
       last' = Outcome("plate", "svc", plate, <<>>, r.repoErr, r.err, 0, r.found, TRUE)
    /\ UNCHANGED <<collection, nextID, now, inflight, deleted>>

\* GET /drivers/nearby as the handler FindNearbyDrivers answers it (lines
\* 185-224), or service.FindNearbyDrivers. lat and lon are query values at
\* the handler and numbers at the service.
FindNearbyDrivers(via, lat, lon, taxiType) ==
    /\ Serving
    /\ via = "svc" => lat.num /\ lon.num
    /\ LET req == [Lat |-> lat, Lon |-> lon, TaxiType |-> taxiType] IN
       IF ~lat.given \/ ~lon.given \/ ~lat.num \/ ~lon.num
         THEN last' = Outcome("nearby", via, <<>>, req, Nil, Nil, 400, <<>>, TRUE)
         ELSE \E ordered \in GeoNear(collection, NearbyCenter(lat.n, lon.n),
                                     NearbyMaxDistance(SvcRadiusKm)) :
                LET r == SvcFindNearbyDrivers(lat.n, lon.n, taxiType, ordered) IN
                last' = Outcome("nearby", via, <<>>, req, r.repoErr, r.err,
                                IF via = "http" THEN NearbyStatus(r.err) ELSE 0,
                                IF via = "http"
                                  THEN [i \in 1..Len(r.drivers) |->
                                          NewDriverWithDistanceResponse(r.drivers[i])]
                                  ELSE r.drivers,
                                TRUE)
    /\ UNCHANGED <<collection, nextID, now, inflight, deleted>>

\* A GET request on a path of one segment under /api/v1/drivers, handed to
\* the handler the router picks.
RouteGet(segment, lat, lon, taxiType) ==
    LET handler == Dispatch("GET", <<segment>>) IN
    IF handler = "GetDriver" THEN GetDriver("http", segment)
    ELSE IF handler = "FindNearbyDrivers"
      THEN FindNearbyDrivers("http", lat, lon, taxiType)
    ELSE /\ ~proc.exited
         /\ last' = Outcome("notfound", "http", segment, <<>>, Nil, Nil, 404, {}, TRUE)
         /\ UNCHANGED <<collection, nextID, now, inflight, deleted, proc>>

-----------------------------------------------------------------------------
(* Shutdown                                                                *)

\* The error the mongo driver returns for an operation on a client that
\* Disconnect was called on.
ErrClientDisconnected == "mongo.ErrClientDisconnected"

\* SIGINT or SIGTERM arrives: signal.Notify was called for two channels of
\* capacity one (database.go lines 46-47, main.go lines 214-215), and the
\* runtime puts the signal into each channel that has room.
Signal ==
    /\ ~proc.exited
    /\ proc' = [proc EXCEPT !.dbSig = TRUE, !.srvSig = TRUE]
    /\ UNCHANGED <<collection, nextID, now, inflight, last, deleted>>

\* SetupGracefulShutdown's goroutine, line 50: sig := <-sigChan.
DbReceive ==
    /\ ~proc.exited
    /\ proc.dbPc = "wait" /\ proc.dbSig
    /\ proc' = [proc EXCEPT !.dbSig = FALSE, !.dbPc = "close"]
    /\ UNCHANGED <<collection, nextID, now, inflight, last, deleted>>

\* Lines 53-55: dm.Close() disconnects the mongo client.
DbClose ==
    /\ ~proc.exited
    /\ proc.dbPc = "close"
    /\ proc' = [proc EXCEPT !.db = "disconnected", !.dbPc = "exit"]
    /\ UNCHANGED <<collection, nextID, now, inflight, last, deleted>>

\* Line 57: os.Exit(0) ends the process, whatever the other goroutines do.
DbExit ==
    /\ ~proc.exited
    /\ proc.dbPc = "exit"
    /\ proc' = [proc EXCEPT !.exited = TRUE]
    /\ UNCHANGED <<collection, nextID, now, inflight, last, deleted>>

\* setupGracefulShutdown's goroutine, main.go line 219: sig := <-sigChan.
SrvReceive ==
    /\ ~proc.exited
    /\ proc.srvPc = "wait" /\ proc.srvSig
    /\ proc' = [proc EXCEPT !.srvSig = FALSE, !.srvPc = "shutdown"]
    /\ UNCHANGED <<collection, nextID, now, inflight, last, deleted>>

\* Line 227, app.ShutdownWithContext: the listener is closed first.
SrvShutdown ==
    /\ ~proc.exited
    /\ proc.srvPc = "shutdown"
    /\ proc' = [proc EXCEPT !.listening = FALSE, !.srvPc = "drain"]
    /\ UNCHANGED <<collection, nextID, now, inflight, last, deleted>>

\* Lines 227-231: ShutdownWithContext returns once no request is being
\* served.
SrvDrained ==
    /\ ~proc.exited
    /\ proc.srvPc = "drain"
    /\ \A c \in Clients : inflight[c] = Idle
    /\ proc' = [proc EXCEPT !.srvPc = "complete"]
    /\ UNCHANGED <<collection, nextID, now, inflight, last, deleted>>

\* Lines 223 and 227-231: the context's 30 seconds pass with a request still
\* being served; ShutdownWithContext returns the context's error, which is
\* logged.
SrvDeadline ==
    /\ ~proc.exited
    /\ proc.srvPc = "drain"
    /\ \E c \in Clients : inflight[c] # Idle
    /\ proc' = [proc EXCEPT !.srvPc = "complete"]
    /\ UNCHANGED <<collection, nextID, now, inflight, last, deleted>>

\* main line 180: app.Listen returns nil once the listener is closed.
ListenReturns ==
    /\ ~proc.exited
    /\ proc.mainPc = "listen" /\ ~proc.listening
    /\ proc' = [proc EXCEPT !.mainPc = "close"]
    /\ UNCHANGED <<collection, nextID, now, inflight, last, deleted>>

\* main lines 40-44: the deferred dbManager.Close().
MainClose ==
    /\ ~proc.exited
    /\ proc.mainPc = "close"
    /\ proc' = [proc EXCEPT !.db = "disconnected", !.mainPc = "return"]
    /\ UNCHANGED <<collection, nextID, now, inflight, last, deleted>>

\* main line 183: main returns and the process exits.
MainReturn ==
    /\ ~proc.exited
    /\ proc.mainPc = "return"
    /\ proc' = [proc EXCEPT !.exited = TRUE]
    /\ UNCHANGED <<collection, nextID, now, inflight, last, deleted>>

\* A request arrives: the server accepts it while it listens.
AcceptCreate(req) ==
    /\ proc.listening
    /\ CreateDriver("http", req, FALSE)

AcceptDelete(c, id) ==
    /\ proc.listening
    /\ DeleteDriverBegin(c, "http", id)

\* DeleteDriver from repository.Delete on, on a disconnected handle: DeleteOne
\* fails (repository lines 273-276), the service wraps the error (service
\* lines 241-243) and the handler answers 500 (handler lines 175-180).
DeleteDriverDisconnected(c) ==
    /\ ~proc.exited
    /\ proc.db = "disconnected"
    /\ inflight[c].op = "delete"
    /\ LET call == inflight[c]
           repoErr == Wrap("failed to delete driver", <<ErrClientDisconnected>>)
           err == Wrap("failed to delete driver", repoErr)
       IN  last' = Outcome("delete", call.via, call.id, <<>>, repoErr, err,
                           IF call.via = "http" THEN ByIDStatus(err, 204) ELSE 0,
                           {}, TRUE)
    /\ inflight' = [inflight EXCEPT ![c] = Idle]
    /\ UNCHANGED <<collection, nextID, now, deleted, proc>>

-----------------------------------------------------------------------------
(* Specifications                                                          *)

Rename == [NoUpdate EXCEPT !.FirstName = <<"Veli">>, !.CarBrand = <<"Ford">>]
Move == [Lat |-> -90, Lon |-> 180]
TwoDrivers ==
    { BaseCreate, [BaseCreate EXCEPT !.Plate = Plate06, !.Lat = -90, !.Lon = 180] }

\* Creation and lookup: every creation request, at either entry, with and
\* without a failure of the store.
NextCreate ==
    \/ Tick
    \/ \E via \in {"http", "svc"}, req \in CreateRequests, fault \in BOOLEAN :
          CreateDriver(via, req, fault)
    \/ \E call \in Calls : GetDriver(call[2], call[1])

SpecCreate == Init /\ [][NextCreate]_vars

\* The calls on one driver, one after the other, with every identifier.
Next ==
    \/ \E req \in TwoDrivers : CreateDriver("svc", req, FALSE)
    \/ \E call \in Calls : GetDriver(call[2], call[1])
    \/ \E call \in Calls : UpdateDriverBegin("c1", call[2], call[1], Rename)
    \/ UpdateDriverWrite("c1")
    \/ UpdateDriverFetch("c1")
    \/ \E call \in Calls : UpdateLocationBegin("c1", call[2], call[1], Move)
    \/ UpdateLocationWrite("c1")
    \/ \E call \in Calls : DeleteDriverBegin("c1", call[2], call[1])
    \/ DeleteDriverWrite("c1")

Spec == Init /\ [][Next]_vars

\* Partial updates of one driver: every update request, with a second
\* client whose location updates may come between the read and the write
\* of the first.
NextUpdate ==
    \/ CreateDriver("svc", BaseCreate, FALSE)
    \/ \E req \in UpdateRequests : UpdateDriverBegin("c1", "svc", FirstID, req)
    \/ UpdateDriverWrite("c1")
    \/ UpdateLocationBegin("c2", "svc", FirstID, Move)
    \/ UpdateLocationWrite("c2")

SpecUpdate == Init /\ [][NextUpdate]_vars

\* Two clients, every mutation, interleaved: both create and delete, the
\* first updates and the second updates locations.
NextConc ==
    \/ \E req \in TwoDrivers : CreateDriver("svc", req, FALSE)
    \/ \E id \in DriverIDs : UpdateDriverBegin("c1", "svc", id, Rename)
    \/ UpdateDriverWrite("c1")
    \/ \E id \in DriverIDs : UpdateLocationBegin("c2", "svc", id, Move)
    \/ UpdateLocationWrite("c2")
    \/ \E c \in Clients, id \in DriverIDs :
          DeleteDriverBegin(c, "svc", id)
    \/ \E c \in Clients : DeleteDriverWrite(c)

SpecConc == Init /\ [][NextConc]_vars

Plate35 == <<"3", "5", "K", "L", "1", "2">>
ThreeDrivers == TwoDrivers \cup {[BaseCreate EXCEPT !.Plate = Plate35]}

\* Listing: every page and page size, at either entry, over every store of
\* up to MaxDrivers drivers; a creation may come between the count and the
\* find.
NextList ==
    \/ \E req \in ThreeDrivers : CreateDriver("svc", req, FALSE)
    \/ \E page \in ListPages, pageSize \in ListPageSizes :
          ListDriversCall("c1", page, pageSize)
    \/ \E qp \in PageQueries, qs \in PageSizeQueries :
          ListDriversQuery("c1", qp, qs)
    \/ ListDriversFind("c1")

SpecList == Init /\ [][NextList]_vars

\* Reading the list page by page, over drivers created at the same and at
\* different times.
NextScan ==
    \/ Tick
    \/ \E req \in ThreeDrivers : CreateDriver("svc", req, FALSE)
    \/ \E pageSize \in {1, 2} : ScanBegin("c1", pageSize)
    \/ ScanPage("c1")

SpecScan == Init /\ [][NextScan]_vars

\* Drivers for the nearby search: one in Istanbul (41 N, 29 E), two at
\* 10 N and 11 N on the meridian 89 E.
NearbyCreates ==
    { BaseCreate,
      [BaseCreate EXCEPT !.Plate = Plate06, !.TaxiType = "turkuaz",
                         !.Lat = 10, !.Lon = 89],
      [BaseCreate EXCEPT !.Plate = Plate35, !.Lat = 11, !.Lon = 89] }

NearbyPoints ==
    { <<QueryNum(41), QueryNum(29)>>, <<QueryNum(29), QueryNum(41)>>,
      <<QueryNum(10), QueryNum(89)>>, <<QueryNum(89), QueryNum(10)>>,
      <<QueryNum(200), QueryNum(29)>>, <<QueryNum(41), QueryNum(-181)>>,
      <<QueryAbsent, QueryNum(29)>>, <<QueryNum(41), QueryText>> }

NearbyTaxiTypes == {"", "sari", "gold"}

\* The nearby search, at the handler and at the service, and GET requests
\* through the router.
NextNearby ==
    \/ \E req \in NearbyCreates : CreateDriver("svc", req, FALSE)
    \/ \E via \in {"http", "svc"}, point \in NearbyPoints, taxiType \in NearbyTaxiTypes :
          FindNearbyDrivers(via, point[1], point[2], taxiType)
    \/ \E segment \in {SegNearby, FirstID} :
          RouteGet(segment, QueryNum(41), QueryNum(29), "")

SpecNearby == Init /\ [][NextNearby]_vars

\* Location updates of stored and of unknown drivers, one call at a time,
\* with every location request at either entry, while the clock advances.
NextLocation ==
    \/ Tick
    \/ \E req \in TwoDrivers : CreateDriver("svc", req, FALSE)
    \/ \E call \in Calls, req \in LocationRequests :
          UpdateLocationBegin("c1", call[2], call[1], req)
    \/ UpdateLocationWrite("c1")

SpecLocation == Init /\ [][NextLocation]_vars

\* Requests that pass validation and requests that do not, at either
\* entry: creations, updates and location updates of the first driver.
ValidateCreates ==
    { BaseCreate,
      [BaseCreate EXCEPT !.Plate = Plate06, !.TaxiType = "siyah", !.Lat = 90, !.Lon = -180],
      [BaseCreate EXCEPT !.Plate = Plate06, !.TaxiType = "gold"],
      [BaseCreate EXCEPT !.Plate = Plate06, !.TaxiType = ""],
      [BaseCreate EXCEPT !.Plate = Plate06, !.Lat = 91],
      [BaseCreate EXCEPT !.Plate = Plate06, !.Lon = -181] }

ValidateUpdates ==
    { [NoUpdate EXCEPT !.TaxiType = <<"turkuaz">>],
      [NoUpdate EXCEPT !.TaxiType = <<"">>],
      [NoUpdate EXCEPT !.FirstName = <<"Veli">>, !.TaxiType = <<"gold">>],
      [NoUpdate EXCEPT !.Lat = <<90>>, !.Lon = <<-180>>],
      [NoUpdate EXCEPT !.Lat = <<91>>, !.Lon = <<0>>],
      [NoUpdate EXCEPT !.Lat = <<10>>, !.Lon = <<181>>] }

NextValidate ==
    \/ \E via \in {"http", "svc"}, req \in ValidateCreates :
          CreateDriver(via, req, FALSE)
    \/ \E via \in {"http", "svc"}, req \in ValidateUpdates :
          UpdateDriverBegin("c1", via, FirstID, req)
    \/ UpdateDriverWrite("c1")
    \/ UpdateDriverFetch("c1")
    \/ \E via \in {"http", "svc"}, req \in LocationRequests :
          UpdateLocationBegin("c1", via, FirstID, req)
    \/ UpdateLocationWrite("c1")

SpecValidate == Init /\ [][NextValidate]_vars

\* Two clients and a clock: the first updates a driver, the second updates
\* its location and deletes it, in every interleaving of their reads and
\* writes with each other and with the clock.
NextTimed ==
    \/ Tick
    \/ \E req \in TwoDrivers : CreateDriver("svc", req, FALSE)
    \/ UpdateDriverBegin("c1", "svc", FirstID, Rename)
    \/ UpdateDriverWrite("c1")
    \/ UpdateLocationBegin("c2", "svc", FirstID, Move)
    \/ UpdateLocationWrite("c2")
    \/ DeleteDriverBegin("c2", "svc", FirstID)
    \/ DeleteDriverWrite("c2")

SpecTimed == Init /\ [][NextTimed]_vars

\* Calls that fail, for every reason the code knows: requests that do not
\* pass validation, a plate already stored, a failure of the store, an
\* identifier that is malformed or unknown, and a driver deleted by the other
\* client between a call's read and its write.
FailingCreates == TwoDrivers \cup {[BaseCreate EXCEPT !.CarModel = ""]}
FailingUpdates == {Rename, [NoUpdate EXCEPT !.Lat = <<91>>, !.Lon = <<0>>]}
FailingIDs == {FirstID, ShortID}

NextFail ==
    \/ \E req \in FailingCreates, fault \in BOOLEAN : CreateDriver("svc", req, fault)
    \/ \E via \in {"http", "svc"}, id \in FailingIDs, req \in FailingUpdates :
          UpdateDriverBegin("c1", via, id, req)
    \/ UpdateDriverWrite("c1")
    \/ UpdateDriverFetch("c1")
    \/ \E id \in FailingIDs, req \in LocationRequests :
          UpdateLocationBegin("c1", "svc", id, req)
    \/ UpdateLocationWrite("c1")
    \/ \E c \in Clients, id \in FailingIDs : DeleteDriverBegin(c, "svc", id)
    \/ \E c \in Clients : DeleteDriverWrite(c)

SpecFail == Init /\ [][NextFail]_vars

\* PUT /drivers/:id by one client while a second client updates and deletes
\* the same driver: the second client's calls may come between the
\* handler's update and its read of the updated driver.
Retype == [NoUpdate EXCEPT !.FirstName = <<"Can">>, !.TaxiType = <<"siyah">>]

NextHandler ==
    \/ CreateDriver("svc", BaseCreate, FALSE)
    \/ \E req \in {Rename, NoUpdate} : UpdateDriverBegin("c1", "http", FirstID, req)
    \/ UpdateDriverWrite("c1")
    \/ UpdateDriverFetch("c1")
    \/ UpdateDriverBegin("c2", "svc", FirstID, Retype)
    \/ UpdateDriverWrite("c2")
    \/ DeleteDriverBegin("c2", "svc", FirstID)
    \/ DeleteDriverWrite("c2")

SpecHandler == Init /\ [][NextHandler]_vars

\* Plates with and without whitespace: creations at either entry and
\* lookups by plate under either spelling.
PlateCreates ==
    { BaseCreate,
      [BaseCreate EXCEPT !.Plate = PlateSpaced, !.FirstName = "Veli"],
      [BaseCreate EXCEPT !.Plate = Plate06],
      [BaseCreate EXCEPT !.Plate = Plate35],
      [BaseCreate EXCEPT !.Plate = PlateBad] }

PlateLookups == {Plate34, PlateSpaced, Plate06, Plate35, PlateBad, <<>>}

NextPlate ==
    \/ \E via \in {"http", "svc"}, req \in PlateCreates : CreateDriver(via, req, FALSE)
    \/ \E plate \in PlateLookups : GetDriverByPlate(plate)

SpecPlate == Init /\ [][NextPlate]_vars

\* Shutdown: requests that create and delete drivers, a signal, and the
\* steps of the two signal goroutines and of main in every order.
NextShutdown ==
    \/ \E req \in TwoDrivers : AcceptCreate(req)
    \/ \E c \in Clients, id \in DriverIDs : AcceptDelete(c, id)
    \/ \E c \in Clients : DeleteDriverWrite(c)
    \/ \E c \in Clients : DeleteDriverDisconnected(c)
    \/ Signal
    \/ DbReceive
    \/ DbClose
    \/ DbExit
    \/ SrvReceive
    \/ SrvShutdown
    \/ SrvDrained
    \/ SrvDeadline
    \/ ListenReturns
    \/ MainClose
    \/ MainReturn

SpecShutdown == Init /\ [][NextShutdown]_vars

-----------------------------------------------------------------------------
(* Properties                                                              *)

ByIDOps == {"get", "update", "location", "delete"}

\* A creation request the specification calls valid: the text fields within
\* their length bounds, a plate of the Turkish pattern, one of the three
\* taxi types, and the coordinates anywhere in their closed ranges.
ValidAsSpecified(req) ==
    /\ LenBetween(req.FirstName, 2, 50)
    /\ LenBetween(req.LastName, 2, 50)
    /\ TurkishLicensePlateValidator(req.Plate)
    /\ req.TaxiType \in TaxiTypes
    /\ LenBetween(req.CarBrand, 2, 30)
    /\ LenBetween(req.CarModel, 1, 30)
    /\ req.Lat >= -90 /\ req.Lat <= 90
    /\ req.Lon >= -180 /\ req.Lon <= 180

PlateInUse(coll, plate) == \E d \in coll : d.Plate = plate

\* What GetDriverByID returns after a creation is the driver of the request.
RoundTrip(coll, id, req) ==
    LET g == SvcGetDriverByID(coll, id) IN
    /\ g.err = Nil
    /\ g.found # {}
    /\ \A d \in g.found :
          /\ d.FirstName = req.FirstName /\ d.LastName = req.LastName
          /\ d.Plate = req.Plate /\ d.TaxiType = req.TaxiType
          /\ d.CarBrand = req.CarBrand /\ d.CarModel = req.CarModel
          /\ d.Location = [Lat |-> req.Lat, Lon |-> req.Lon]
          /\ d.CreatedAt = d.UpdatedAt

\* C1: CreateDriver with a valid request (coordinates anywhere in the closed
\* ranges, 0 included) whose plate is not in use succeeds, and GetDriverByID
\* of the identifier it returns gives a driver with the fields of the request
\* and CreatedAt equal to UpdatedAt.
C1_CreateGetRoundTrip ==
    [][\A via \in {"http", "svc"} : \A req \in CreateRequests :
          ( /\ CreateDriver(via, req, FALSE)
            /\ ValidAsSpecified(req)
            /\ ~PlateInUse(collection, req.Plate) )
          => ( /\ last'.err = Nil
               /\ RoundTrip(collection', last'.ret, req) )]_vars

\* C4: Get, Update, UpdateLocation and Delete on a well-formed identifier no
\* stored driver has fail with ErrDriverNotFound, which the handler answers
\* with 404 and never with 500.
C4_MissingIsNotFound ==
    ( /\ last.op \in ByIDOps
      /\ isValidObjectID(last.id)
      /\ ObjectIDFromHex(last.id) \notin IDs(collection)
      /\ last.err # Nil )
    => ( /\ ErrorsIs(last.err, SvcErrDriverNotFound)
         /\ last.via = "http" => last.status = 404 )

\* C5: creating a driver whose plate is in use fails with
\* ErrDriverAlreadyExists, answered with 409, and is told apart from any
\* other failure of the store, which is answered with 500.
C5_DuplicateIsConflict ==
    [][\A via \in {"http", "svc"} : \A req \in CreateRequests :
          /\ ( /\ CreateDriver(via, req, FALSE)
               /\ CreateValid(req)
               /\ PlateInUse(collection, req.Plate) )
             => ( /\ ErrorsIs(last'.err, SvcErrDriverAlreadyExists)
                  /\ via = "http" => last'.status = 409 )
          /\ ( /\ CreateDriver(via, req, TRUE)
               /\ CreateValid(req) )
             => ( /\ last'.err # Nil
                  /\ ~ErrorsIs(last'.err, SvcErrDriverAlreadyExists)
                  /\ via = "http" => last'.status = 500 )]_vars

\* The class of an error by the sentinels it carries.
ErrorClass(err, invalid, notFound) ==
    IF ErrorsIs(err, invalid) THEN "InvalidID"
    ELSE IF ErrorsIs(err, notFound) THEN "NotFound"
    ELSE "other"

\* C6: at the repository, the service and the handler a malformed identifier
\* is an invalid identifier (400) and a well-formed one nobody has is not
\* found (404); the two are never reported as the same class.
C6_MalformedVersusMissing ==
    ( /\ last.op \in ByIDOps
      /\ last.id # <<>>
      /\ isValidObjectID(last.id) => ObjectIDFromHex(last.id) \notin IDs(collection)
      /\ last.op = "delete" => last.err # Nil )
    => LET class == IF isValidObjectID(last.id) THEN "NotFound" ELSE "InvalidID"
       IN  /\ last.via = "http" =>
                last.status = (IF class = "InvalidID" THEN 400 ELSE 404)
           /\ last.repoErr # Nil =>
                ErrorClass(last.repoErr, RepoErrInvalidID, RepoErrDriverNotFound) = class
           /\ last.err # Nil =>
                ErrorClass(last.err, SvcErrInvalidID, SvcErrDriverNotFound) = class

\* C2: under any interleaving of the mutations no two stored drivers have
\* the same plate, and a creation whose plate is in use fails and stores
\* nothing.
C2_PlatesStayUnique ==
    /\ [](\A d \in collection : \A e \in collection : d.Plate = e.Plate => d = e)
    /\ [][\A req \in TwoDrivers :
             ( /\ CreateDriver("svc", req, FALSE)
               /\ PlateInUse(collection, req.Plate) )
             => ( /\ last'.err # Nil
                  /\ collection' = collection )]_vars

\* A creation has just failed on a plate a stored driver has.
C2_Witness ==
    /\ last.op = "create"
    /\ last.err # Nil
    /\ PlateInUse(collection, last.req.Plate)
    /\ \E c \in Clients : inflight[c] # Idle

\* The value of a field after an update: that of the request when given.
Given(ptr, old) == IF ptr # <<>> THEN ptr[1] ELSE old

\* C3: an UpdateDriver that succeeds, with no write to the driver between
\* its read and its write, leaves the driver with each text field of the
\* request that is given and the stored value of each that is not; the
\* location is replaced only when latitude and longitude are both given;
\* identifier, plate and creation time stay, and so does every other driver.
C3_UpdateMergesFields ==
    [][( /\ UpdateDriverWrite("c1")
         /\ last'.err = Nil
         /\ last'.clean )
       => LET req == inflight["c1"].req
              old == inflight["c1"].existing
          IN  /\ \E new \in collection' :
                    /\ new.ID = old.ID
                    /\ new.Plate = old.Plate
                    /\ new.CreatedAt = old.CreatedAt
                    /\ new.FirstName = Given(req.FirstName, old.FirstName)
                    /\ new.LastName = Given(req.LastName, old.LastName)
                    /\ new.TaxiType = Given(req.TaxiType, old.TaxiType)
                    /\ new.CarBrand = Given(req.CarBrand, old.CarBrand)
                    /\ new.CarModel = Given(req.CarModel, old.CarModel)
                    /\ new.Location =
                         IF req.Lat # <<>> /\ req.Lon # <<>>
                           THEN [Lat |-> req.Lat[1], Lon |-> req.Lon[1]]
                           ELSE old.Location
              /\ {d \in collection' : d.ID # old.ID}
                   = {d \in collection : d.ID # old.ID}]_vars

\* An update that gave the latitude alone has succeeded, the location is
\* the one stored before.
C3_Witness ==
    /\ last.op = "update"
    /\ last.err = Nil
    /\ last.clean
    /\ last.req.Lat # <<>>
    /\ last.req.Lon = <<>>
    /\ \E d \in collection : d.Location.Lat # last.req.Lat[1]

\* C7: a Delete that succeeds removes a stored driver and nothing else, so
\* that the count is one less; a Delete of an identifier nobody has never
\* succeeds; after it every Get, Update, UpdateLocation and Delete of the
\* deleted identifier fails. (A step of a call on an identifier sets
\* last.id to it or changes inflight; saying so first spares evaluating the
\* call on every other step.)
C7_DeleteIsFinal ==
    [][/\ ( /\ DeleteDriverWrite("c1")
            /\ last'.err = Nil )
          => LET oid == ObjectIDFromHex(inflight["c1"].id) IN
             /\ oid \in IDs(collection)
             /\ collection' = {d \in collection : d.ID # oid}
             /\ Cardinality(collection') = Cardinality(collection) - 1
       /\ \A call \in IDInputs \X {"http", "svc"} :
            ( /\ (last'.op = "delete" /\ last'.id = call[1]) \/ inflight' # inflight
              /\ call[2] \in Entries(call[1])
              /\ IF isValidObjectID(call[1])
                   THEN ObjectIDFromHex(call[1]) \notin IDs(collection)
                   ELSE TRUE
              /\ DeleteDriverBegin("c1", call[2], call[1]) )
            => ( /\ last'.op = "delete"
                 /\ last'.err # Nil \/ last'.status = 400
                 /\ inflight' = inflight
                 /\ collection' = collection )
       /\ \A id \in DriverIDs :
            ( /\ last'.id = id \/ inflight' # inflight
              /\ ObjectIDFromHex(id) \in deleted
              /\ \/ GetDriver("http", id)
                 \/ UpdateDriverBegin("c1", "http", id, Rename)
                 \/ UpdateLocationBegin("c1", "http", id, Move)
                 \/ DeleteDriverBegin("c1", "http", id) )
            => ( /\ last'.err # Nil
                 /\ last'.id = id
                 /\ inflight' = inflight
                 /\ collection' = collection )]_vars

\* A driver was deleted, another is still stored, and an update of the
\* deleted one has just failed.
C7_Witness ==
    /\ deleted # {}
    /\ collection # {}
    /\ last.op = "update"
    /\ isValidObjectID(last.id)
    /\ ObjectIDFromHex(last.id) \in deleted
    /\ last.err # Nil

\* The page and the page size a list call asked for: the arguments of the
\* service call, or the numbers of the query.
AskedNumbers(o) ==
    o.via = "svc" \/ (o.req.query[1].num /\ o.req.query[2].num)
AskedPage(o) == IF o.via = "svc" THEN o.req.page ELSE o.req.query[1].n
AskedPageSize(o) == IF o.via = "svc" THEN o.req.pageSize ELSE o.req.query[2].n

UsedPage(o) ==
    IF o.via = "svc"
      THEN (IF I64LessThan1(o.req.page) THEN I64(1) ELSE o.req.page)
      ELSE LET q == o.req.query[1] IN
           IF q.given /\ q.num /\ ~I64LessThan1(q.n) THEN q.n ELSE I64(1)
UsedPageSize(o) ==
    IF o.via = "svc"
      THEN (IF o.req.pageSize < 1 THEN 10
            ELSE IF o.req.pageSize > 100 THEN 100 ELSE o.req.pageSize)
      ELSE LET q == o.req.query[2] IN
           IF q.given /\ q.num /\ q.n >= 1
             THEN (IF q.n > 100 THEN 100 ELSE q.n) ELSE 20

C9_PageArithmetic ==
    last.op = "list"
    => /\ last.err = Nil
       /\ LET r == last.ret[1] IN
          /\ r.TotalPages * r.PageSize >= r.TotalCount
          /\ r.TotalPages = 0 \/ (r.TotalPages - 1) * r.PageSize < r.TotalCount
          /\ Len(r.Data) <= r.PageSize
          /\ r.PageSize <= 100
          /\ last.clean =>
               /\ r.TotalCount = Cardinality(collection)
               /\ I64GreaterThan(r.Page, r.TotalPages) => Len(r.Data) = 0

\* C10: a client that reads the pages 1..TotalPages with no write in
\* between is given every stored driver exactly once, newest first, also
\* when drivers have the same creation time.
C10_StablePaging ==
    (last.op = "scan" /\ last.clean)
    => /\ Len(last.ret) = Cardinality(collection)
       /\ {last.ret[i] : i \in 1..Len(last.ret)} = IDs(collection)
       /\ \A i \in 1..Len(last.ret) : \A j \in 1..Len(last.ret) :
            i < j => \A d \in collection : \A e \in collection :
                        (d.ID = last.ret[i] /\ e.ID = last.ret[j])
                        => d.CreatedAt >= e.CreatedAt

\* The distance in metres from a driver's location to the point (lat, lon).
TrueMetres(d, lat, lon) ==
    Metres(GeoPoint(d.Location.Lon, d.Location.Lat), GeoPoint(lon, lat))

NearbyArgsValid(req) ==
    /\ req.Lat.given /\ req.Lat.num /\ req.Lat.n >= -90 /\ req.Lat.n <= 90
    /\ req.Lon.given /\ req.Lon.num /\ req.Lon.n >= -180 /\ req.Lon.n <= 180
    /\ req.TaxiType = "" \/ IsValidTaxiType(req.TaxiType)

\* C11: FindNearbyDrivers with valid arguments succeeds and returns exactly
\* the stored drivers within 5 km of the query point (of the taxi type asked
\* for, when one is), at most 50 of them, nearest first, each with its
\* distance to the query point, so that a driver at the query point comes
\* first with distance 0.
C11_NearestWithinRadius ==
    (last.op = "nearby" /\ last.via = "svc" /\ NearbyArgsValid(last.req)) =>
        LET lat == last.req.Lat.n
            lon == last.req.Lon.n
            wanted == { d \in collection :
                          /\ TrueMetres(d, lat, lon) <= 5000
                          /\ last.req.TaxiType # "" => d.TaxiType = last.req.TaxiType }
            n == Len(last.ret)
        IN  /\ last.err = Nil
            /\ n <= 50
            /\ \A i \in 1..n : last.ret[i].Driver \in wanted
            /\ Cardinality(wanted) <= 50 =>
                  \A d \in wanted : \E i \in 1..n : last.ret[i].Driver = d
            /\ \A i \in 1..n :
                  last.ret[i].DistanceKm.num * 1000 =
                      TrueMetres(last.ret[i].Driver, lat, lon) * last.ret[i].DistanceKm.den
            /\ \A i \in 1..n : \A j \in 1..n : i < j =>
                  TrueMetres(last.ret[i].Driver, lat, lon)
                      <= TrueMetres(last.ret[j].Driver, lat, lon)

\* C12: a nearby search with a latitude or longitude out of range fails
\* with InvalidLocation, one with a non-empty taxi type outside the three
\* fails with InvalidTaxiType, in both cases without a query of the store,
\* and the handler answers 400.
C12_NearbyRejectsBadArguments ==
    (/\ last.op = "nearby"
     /\ last.req.Lat.given /\ last.req.Lat.num
     /\ last.req.Lon.given /\ last.req.Lon.num
     /\ ~NearbyArgsValid(last.req)) =>
        LET badPoint == \/ last.req.Lat.n < -90 \/ last.req.Lat.n > 90
                        \/ last.req.Lon.n < -180 \/ last.req.Lon.n > 180
        IN  /\ last.repoErr = Nil
            /\ last.ret = <<>>
            /\ badPoint => ErrorsIs(last.err, SvcErrInvalidLocation)
            /\ ~badPoint => ErrorsIs(last.err, SvcErrInvalidTaxiType)
            /\ last.via = "http" => last.status = 400

\* C18: a GET of /api/v1/drivers/nearby is handed to FindNearbyDrivers: the
\* route /:id registered before it never takes the path /nearby, so GetDriver
\* is never called with "nearby" as the identifier.
C18_NearbyIsRouted ==
    (last.via = "http" /\ last.id = SegNearby) =>
        /\ Dispatch("GET", <<last.id>>) = "FindNearbyDrivers"
        /\ last.op # "get"

\* A step that ends a call op: the call is refused before its write, or
\* client c's write is done.
EndsCall(op) ==
    /\ last'.op = op
    /\ \/ inflight' = inflight /\ last' # last
       \/ \E c \in Clients : inflight[c].op = op /\ inflight'[c] # inflight[c]

\* The error of a request that did not pass validation.
IsValidationFailed(err) ==
    ErrorsIs(err, SvcErrValidationFailed) \/ (err # Nil /\ err[1] = "validation failed")

\* C13: UpdateDriverLocation on a stored driver succeeds for every latitude
\* in [-90, 90] and longitude in [-180, 180]: afterwards the stored location
\* is the one asked for, UpdatedAt is a reading of the clock taken during
\* the call and every other field is as it was. With a coordinate out of
\* range the call fails validation and the driver is unchanged.
C13_LocationUpdate ==
    [][ (/\ EndsCall("location")
         /\ last'.id \in DriverIDs
         /\ \E d \in collection : Hex(d.ID) = last'.id) =>
          LET d == CHOOSE d \in collection : Hex(d.ID) = last'.id
              req == last'.req
          IN  IF Between(req.Lat, -90, 90) /\ Between(req.Lon, -180, 180)
                THEN /\ last'.err = Nil
                     /\ \E t \in 0..now :
                          collection' = (collection \ {d}) \cup
                              {[d EXCEPT !.Location = [Lat |-> req.Lat, Lon |-> req.Lon],
                                         !.UpdatedAt = t]}
                ELSE /\ \/ IsValidationFailed(last'.err)
                        \/ last'.via = "http" /\ last'.status = 400
                     /\ collection' = collection ]_vars

\* A stored driver the specification allows: one of the three taxi types,
\* a latitude in [-90, 90] and a longitude in [-180, 180].
WellFormed(d) ==
    /\ d.TaxiType \in {"sari", "turkuaz", "siyah"}
    /\ d.Location.Lat >= -90 /\ d.Location.Lat <= 90
    /\ d.Location.Lon >= -180 /\ d.Location.Lon <= 180

\* The taxi type a request names, if it names one.
NamesOtherTaxiType(op, req) ==
    \/ op = "create" /\ req.TaxiType \notin {"sari", "turkuaz", "siyah"}
    \/ op = "update" /\ req.TaxiType # <<>>
                     /\ req.TaxiType[1] \notin {"sari", "turkuaz", "siyah"}

\* C14: every stored driver has one of the three taxi types, a latitude in
\* [-90, 90] and a longitude in [-180, 180]; a create or an update that
\* names another taxi type (the empty string too) is refused, without a call
\* of the repository and with the store as it was.
C14_StoredDriversWellFormed ==
    /\ [](\A d \in collection : WellFormed(d))
    /\ [][ ((EndsCall("create") \/ EndsCall("update"))
             /\ NamesOtherTaxiType(last'.op, last'.req)) =>
              /\ last'.err # Nil \/ last'.status = 400
              /\ last'.repoErr = Nil
              /\ inflight' = inflight
              /\ collection' = collection ]_vars

\* A driver is stored after a create, an update of its taxi type and a
\* location update went through, and requests naming "gold" and "" were
\* refused.
C14_Witness ==
    /\ \E d \in collection : d.TaxiType = "turkuaz" /\ d.Location = [Lat |-> -90, Lon |-> 180]
    /\ Cardinality(collection) = 2
    /\ last.op = "update" /\ last.req.TaxiType = <<"">> /\ last.err # Nil

\* C15: from its creation to its deletion a driver keeps its identifier, its
\* creation timestamp and its plate, whatever updates and location updates
\* are made and however they interleave: a step changes the stored
\* identifiers only by a creation, which adds one never handed out before, or
\* by a deletion, and a driver that stays stored keeps CreatedAt and Plate.
C15_IdentityIsImmutable ==
    /\ [](\A d \in collection : \A e \in collection : d.ID = e.ID => d = e)
    /\ [][ /\ \A d \in collection : \A e \in collection' :
                e.ID = d.ID => e.CreatedAt = d.CreatedAt /\ e.Plate = d.Plate
           /\ IDs(collection') # IDs(collection) =>
                \/ /\ last'.op = "delete"
                   /\ IDs(collection') \subseteq IDs(collection)
                \/ /\ last'.op = "create"
                   /\ \E oid \in IDs(collection') :
                        /\ IDs(collection') = IDs(collection) \cup {oid}
                        /\ oid \notin IDs(collection) \cup deleted
                        /\ last'.ret = Hex(oid) ]_vars

\* A driver created at one reading of the clock carries both the update and
\* the location update made at a later one.
C15_Witness ==
    \E d \in collection :
        /\ d.CreatedAt < d.UpdatedAt
        /\ d.FirstName = "Veli"
        /\ d.Location = [Lat |-> -90, Lon |-> 180]
        /\ d.Plate = Plate34

\* C16: every successful UpdateDriver and UpdateDriverLocation refreshes
\* UpdatedAt: the stored UpdatedAt of a driver is strictly greater after each
\* successful mutation than before it, and no step ever lowers it, also when
\* the writes of two overlapping updates reach the store in the opposite
\* order of their timestamps.
C16_UpdatedAtIncreases ==
    [][ /\ \A d \in collection : \A e \in collection' :
             e.ID = d.ID => e.UpdatedAt >= d.UpdatedAt
        /\ ((EndsCall("update") \/ EndsCall("location")) /\ last'.err = Nil) =>
             \A d \in collection : \A e \in collection' :
                 (e.ID = d.ID /\ Hex(d.ID) = last'.id) => e.UpdatedAt > d.UpdatedAt ]_vars

\* Whether a request of call op passes its validation.
PassesValidation(op, req) ==
    CASE op = "create" -> CreateValid(req)
      [] op = "update" -> UpdateValid(req)
      [] op = "location" -> LocationValid(req)
      [] OTHER -> TRUE

\* C17: a Create, Update, UpdateLocation or Delete that fails leaves the
\* store exactly as it was, and a request that does not pass validation is
\* refused before any call of the repository.
C17_FailureLeavesStore ==
    [][ \A op \in {"create", "update", "location", "delete"} :
          EndsCall(op) =>
            /\ (last'.err # Nil \/ last'.status = 400) => collection' = collection
            /\ ~PassesValidation(op, last'.req) =>
                 /\ last'.err # Nil \/ last'.status = 400
                 /\ last'.repoErr = Nil
                 /\ inflight' = inflight ]_vars

\* An update fails at its write, the driver it read having been deleted in
\* between, while another driver stays stored.
C17_Witness ==
    /\ last.op = "update" /\ last.id = FirstID
    /\ last.repoErr # Nil /\ last.err # Nil
    /\ 1 \in deleted
    /\ collection # {}

\* The fields of a driver a request of call op names.
NamedFields(op, req) ==
    IF op = "location" THEN {"Location"}
    ELSE {f \in {"FirstName", "LastName", "TaxiType", "CarBrand", "CarModel"} :
              req[f] # <<>>}
         \cup (IF req.Lat # <<>> /\ req.Lon # <<>> THEN {"Location"} ELSE {})

\* C19: however two updates of one driver interleave, the write of an update
\* changes only the fields its own request names and UpdatedAt: a field the
\* request does not name keeps the value stored just before the write, also
\* when another update changed it after this update read the driver, so two
\* overlapping updates of disjoint fields both take effect.
C19_WriteTouchesOwnFields ==
    [][ \A op \in {"update", "location"} :
          (EndsCall(op) /\ last'.err = Nil /\ last'.status # 400) =>
            \A d \in collection : \A e \in collection' :
              e.ID = d.ID =>
                \A f \in {"FirstName", "LastName", "Plate", "TaxiType", "CarBrand",
                          "CarModel", "Location", "CreatedAt"} :
                    (Hex(d.ID) # last'.id \/ f \notin NamedFields(op, last'.req))
                        => e[f] = d[f] ]_vars

\* The value a request gives to a field it names.
NamedValue(req, f) ==
    IF f = "Location" THEN [Lat |-> req.Lat[1], Lon |-> req.Lon[1]] ELSE req[f][1]

\* C20: the handler of PUT /drivers/:id answers a successful update with the
\* updated driver: once the service's update succeeded the answer is a
\* success, and the driver it carries has the request's value in every field
\* the request names, also when another update or a delete of the driver
\* runs between the handler's update and its read of the driver.
C20_HandlerReturnsUpdatedDriver ==
    last.op = "update.response" =>
        /\ last.status = 200
        /\ \A d \in last.ret :
              \A f \in NamedFields("update", last.req) : d[f] = NamedValue(last.req, f)

\* C21: of two DeleteDriver calls on one stored driver that both pass the
\* existence check before either deletes, exactly one reports success: the
\* delete that finds the driver stored succeeds and no identifier is reported
\* deleted twice; the other fails with ErrDriverNotFound, as a delete of an
\* identifier never stored does, which the handler answers with 404.
C21_ConcurrentDeletes ==
    [][ (/\ last'.op = "delete"
         /\ \E c \in Clients : inflight[c].op = "delete" /\ inflight'[c] = Idle) =>
          LET oid == ObjectIDFromHex(last'.id) IN
          /\ oid \in IDs(collection) => last'.err = Nil
          /\ last'.err = Nil => oid \in IDs(collection) /\ oid \notin deleted
          /\ oid \notin IDs(collection) =>
                /\ ErrorsIs(last'.err, SvcErrDriverNotFound)
                /\ last'.via = "http" => last'.status = 404 ]_vars

\* C22: plates are kept and looked up without their whitespace: every stored
\* plate is free of whitespace, no two stored drivers have plates that
\* differ only in whitespace, and GetDriverByPlate returns the stored driver
\* whose plate is the one asked for up to whitespace, failing only when there
\* is none.
C22_PlatesAreNormalised ==
    /\ \A d \in collection : d.Plate = StripSpace(d.Plate)
    /\ \A d \in collection : \A e \in collection :
          StripSpace(d.Plate) = StripSpace(e.Plate) => d = e
    /\ (last.op = "plate" /\ last.id # <<>>) =>
          LET same == {d \in collection : StripSpace(d.Plate) = StripSpace(last.id)}
          IN  /\ last.ret = same
              /\ last.err = Nil <=> same # {}

\* C23: a deleted driver is never brought back. The write of an UpdateDriver
\* or UpdateDriverLocation whose driver was deleted after the call read it
\* stores nothing, so that no driver has the identifier afterwards, and the
\* call reports a failure.
C23_NoResurrection ==
    [][ \A op \in {"update", "location"} :
          (/\ last'.op = op
           /\ \E c \in Clients : inflight[c].op = op /\ inflight'[c] # inflight[c]
           /\ ObjectIDFromHex(last'.id) \in deleted) =>
              /\ last'.err # Nil
              /\ ObjectIDFromHex(last'.id) \notin IDs(collection')
              /\ collection' = collection ]_vars

\* The write of a location update has just failed, the driver it read having
\* been deleted since, while the other driver stays stored.
C23_Witness ==
    /\ last.op = "location"
    /\ last.repoErr # Nil /\ last.err # Nil
    /\ ~last.clean
    /\ ObjectIDFromHex(last.id) \in deleted
    /\ collection # {}

\* C24: on SIGINT/SIGTERM the database connection is closed and the process
\* exits only after the HTTP server's shutdown has completed, and no request
\* that is being served gets the error of a disconnected database handle.
C24_GracefulShutdown ==
    /\ proc.db = "disconnected" => proc.srvPc = "complete"
    /\ proc.exited => proc.srvPc = "complete"
    /\ ~ErrorsIs(last.err, ErrClientDisconnected)

=============================================================================
